---- MODULE Spec2Model ----
(***************************************************************************)
(* pg-users-admin: the role, membership and privilege services             *)
(* (userService, roleService, permissionService) run against a PostgreSQL  *)
(* catalog.  Every service function is an async function that awaits its   *)
(* statements one after another; the model sends one statement per step    *)
(* and keeps the statements sent by the operation in `log`, which is what  *)
(* a mock execution handle would record.                                   *)
(*                                                                         *)
(* Identifiers are sequences of one-character strings, so that the         *)
(* JavaScript prefix test (String.prototype.startsWith) and the            *)
(* case folding PostgreSQL applies to the unquoted identifiers the         *)
(* services interpolate into the SQL text are both computed.               *)
(***************************************************************************)
EXTENDS Naturals, Sequences, FiniteSets, TLC

VARIABLES
    pgRoles,   \* pg_roles: role name -> [login, password]
    members,   \* pg_auth_members: set of <<member, role>>
    objects,   \* tables and sequences: [id, kind, schema, creator]
    namespaces, \* pg_namespace: the names of the schemas of the database
    dbAcl,     \* database privileges: <<database, role, privilege>>
    nsAcl,     \* schema privileges: <<schema, role, privilege>>
    relAcl,    \* table and sequence privileges: <<object id, role, privilege>>
    defAcl,    \* default privileges of the session user: <<schema, kind, role, privilege>>
    call,      \* the service call in flight or last finished: [name, ...arguments]
    pc,        \* index of the next statement of the call; 0 when no call is in flight
    log,       \* statements sent by the call, in order (the failing one included)
    result,    \* "none" | "pending" | "success" | "failure" | "raised"
    prev,      \* the grantWritePermissions call that returned success right
               \* before this call started, or NoCall
    nops,      \* number of service calls started
    error,     \* the error thrown to the caller of the call, or NoError
    fetched,   \* the rows of the catalog queries the call has awaited, in order
    ret,       \* what a catalog-reading call returned, or NoValue
    out,       \* what was printed for the user, or NoOutput
    generated, \* the password generateSecurePassword returned, with its arguments
    inflight,  \* number of statements sent whose result has not been received
    client,    \* the pool client of testConnection: connecting, acquired, released
    csv        \* the credentials file of the command: offered, written, and for which command

vars == <<pgRoles, members, objects, namespaces, dbAcl, nsAcl, relAcl, defAcl,
          call, pc, log, result, prev, nops, error, fetched, ret, out, generated,
          inflight, client, csv>>

dbVars == <<pgRoles, members, objects, namespaces, dbAcl, nsAcl, relAcl, defAcl>>

\* the state of the command-line tool outside the service calls
toolVars == <<generated, inflight, client, csv>>

-----------------------------------------------------------------------------
(* Bounds of the model. *)

\* service calls per behaviour
MaxOps == 2

\* the longest password that is asked for
MaxLength == 4

\* rows of the table grants of a report that is given to the display functions
MaxRows == 2

\* rows of the column grants of such a report
MaxColumnRows == 1

-----------------------------------------------------------------------------
(* Identifiers. *)

pg_ == <<"p", "g", "_">>

rds_ == <<"r", "d", "s", "_">>

n_ab == <<"a", "b">>

n_cd == <<"c", "d">>

n_pg_m == <<"p", "g", "_", "m">>

n_PG_m == <<"P", "G", "_", "m">>

n_rds_a == <<"r", "d", "s", "_", "a">>

n_Rds_a == <<"R", "d", "s", "_", "a">>

\* a name that is no SQL identifier: it starts with a digit
n_1a == <<"1", "a">>

db1 == <<"d", "b">>

s1 == <<"s", "1">>

s2 == <<"s", "2">>

\* the role the pool connects as, and some other role that owns objects
SessionUser == <<"a", "d", "m">>

OtherOwner == <<"o", "w", "n">>

\* names typed at a prompt or passed to a service
Names == {n_ab, n_cd, n_pg_m, n_PG_m, n_rds_a, n_Rds_a, n_1a}

\* roles a grant or revoke is called for (no role cd exists when the tool starts)
GrantRoles == {n_ab, n_pg_m, n_cd}

Schemas == {s1, s2}

\* schema lists as the commands build them: names in catalog order, no repeats
SchemaLists == {<<>>, <<s1>>, <<s1, s2>>}

Passwords == {"pw1", "pw2"}

\* String.prototype.startsWith
startsWith(s, p) == Len(s) >= Len(p) /\ SubSeq(s, 1, Len(p)) = p

Lower(c) ==
    CASE c = "P" -> "p"
      [] c = "G" -> "g"
      [] c = "R" -> "r"
      [] c = "D" -> "d"
      [] c = "S" -> "s"
      [] OTHER -> c

\* the name PostgreSQL resolves an unquoted identifier of the SQL text to
Fold(name) == [i \in 1..Len(name) |-> Lower(name[i])]

Digits == {"0", "1", "2", "3", "4", "5", "6", "7", "8", "9"}

Letters ==
    {"a", "b", "c", "d", "e", "f", "g", "h", "i", "j", "k", "l", "m", "n", "o", "p", "q",
     "r", "s", "t", "u", "v", "w", "x", "y", "z", "A", "B", "C", "D", "E", "F", "G", "H",
     "I", "J", "K", "L", "M", "N", "O", "P", "Q", "R", "S", "T", "U", "V", "W", "X", "Y",
     "Z"}

\* what PostgreSQL reads as one unquoted identifier: a letter or an underscore,
\* then letters, digits, underscores and dollar signs
IsIdentifier(name) ==
    /\ name # <<>>
    /\ name[1] \in Letters \cup {"_"}
    /\ \A i \in 2..Len(name) : name[i] \in Letters \cup Digits \cup {"_", "$"}

\* a role the database treats as a system role
IsSystemRole(rolname) == startsWith(rolname, pg_) \/ startsWith(rolname, rds_)

\* the characters of the identifiers, in the order of their codes
Alphabet ==
    <<".", "1", "2", "3", "4", "G", "P", "R", "_", "a", "b", "c", "d", "e", "f", "g",
      "h", "i", "l", "m", "n", "o", "p", "r", "s", "t", "w">>

Ord(c) == CHOOSE i \in 1..Len(Alphabet) : Alphabet[i] = c

\* a < b for two names as ORDER BY compares them (type name: byte order)
RECURSIVE NameLess(_, _)
NameLess(a, b) ==
    IF a = <<>> THEN b # <<>>
    ELSE IF b = <<>> THEN FALSE
    ELSE IF Head(a) = Head(b) THEN NameLess(Tail(a), Tail(b))
    ELSE Ord(Head(a)) < Ord(Head(b))

\* the names in descending order
RECURSIVE OrderByNameDesc(_)
OrderByNameDesc(S) ==
    IF S = {} THEN <<>>
    ELSE LET m == CHOOSE x \in S : \A y \in S \ {x} : NameLess(y, x)
         IN <<m>> \o OrderByNameDesc(S \ {m})

\* ORDER BY name
RECURSIVE OrderByName(_)
OrderByName(S) ==
    IF S = {} THEN <<>>
    ELSE LET m == CHOOSE x \in S : \A y \in S \ {x} : NameLess(x, y)
         IN <<m>> \o OrderByName(S \ {m})

n_pg_catalog == <<"p", "g", "_", "c", "a", "t", "a", "l", "o", "g">>

n_information_schema ==
    <<"i", "n", "f", "o", "r", "m", "a", "t", "i", "o", "n", "_", "s", "c", "h", "e", "m", "a">>

\* a user schema whose name starts with pg but not with pg_
n_pgs == <<"p", "g", "s">>

\* pg_namespace of a database with user schemas
Namespaces == Schemas \cup {n_pg_catalog, n_information_schema, n_pgs}

\* the name of the table or sequence with this id, and of the column of a table
RelName(id) == <<"t", <<"1", "2", "3", "4", "5", "6">>[id]>>

n_c1 == <<"c", "1">>

-----------------------------------------------------------------------------
(* Statements: the SQL text of one db.query call, by its parts. *)

Stmt(verb, privs, scope, obj, role, password) ==
    [verb |-> verb, privs |-> privs, scope |-> scope, obj |-> obj,
     role |-> role, password |-> password]

NoName == <<>>

WritePrivs == {"INSERT", "UPDATE", "DELETE"}

\* CREATE ROLE ${username} WITH LOGIN PASSWORD '${password}';
CreateLoginStmt(username, password) ==
    Stmt("CREATE ROLE", {}, "LOGIN", NoName, username, password)

\* ALTER ROLE ${username} WITH PASSWORD '${newPassword}';
AlterPasswordStmt(username, newPassword) ==
    Stmt("ALTER ROLE", {}, "PASSWORD", NoName, username, newPassword)

\* DROP ROLE ${name};
DropRoleStmt(name) == Stmt("DROP ROLE", {}, "", NoName, name, "")

\* CREATE ROLE ${rolename} NOLOGIN;
CreateNoLoginStmt(rolename) ==
    Stmt("CREATE ROLE", {}, "NOLOGIN", NoName, rolename, "")

\* GRANT ${rolename} TO ${username};
GrantMemberStmt(username, rolename) ==
    Stmt("GRANT", {}, "ROLE", rolename, username, "")

\* REVOKE ${rolename} FROM ${username};
RevokeMemberStmt(username, rolename) ==
    Stmt("REVOKE", {}, "ROLE", rolename, username, "")

\* GRANT CONNECT ON DATABASE ${database} TO ${rolename};
GrantConnect(rolename, database) ==
    Stmt("GRANT", {"CONNECT"}, "DATABASE", database, rolename, "")

\* GRANT USAGE ON SCHEMA ${schema} TO ${rolename};
GrantUsage(rolename, schema) ==
    Stmt("GRANT", {"USAGE"}, "SCHEMA", schema, rolename, "")

\* GRANT SELECT ON ALL TABLES IN SCHEMA ${schema} TO ${rolename};
GrantSelect(rolename, schema) ==
    Stmt("GRANT", {"SELECT"}, "ALL TABLES", schema, rolename, "")

\* ALTER DEFAULT PRIVILEGES IN SCHEMA ${schema} GRANT SELECT ON TABLES TO ${rolename};
DefaultSelect(rolename, schema) ==
    Stmt("DEFAULT GRANT", {"SELECT"}, "TABLES", schema, rolename, "")

\* GRANT INSERT, UPDATE, DELETE ON ALL TABLES IN SCHEMA ${schema} TO ${rolename};
GrantWrite(rolename, schema) ==
    Stmt("GRANT", WritePrivs, "ALL TABLES", schema, rolename, "")

\* ALTER DEFAULT PRIVILEGES IN SCHEMA ${schema}
\*   GRANT SELECT, INSERT, UPDATE, DELETE ON TABLES TO ${rolename};
DefaultWrite(rolename, schema) ==
    Stmt("DEFAULT GRANT", {"SELECT"} \cup WritePrivs, "TABLES", schema, rolename, "")

\* GRANT USAGE ON ALL SEQUENCES IN SCHEMA ${schema} TO ${rolename};
GrantSequences(rolename, schema) ==
    Stmt("GRANT", {"USAGE"}, "ALL SEQUENCES", schema, rolename, "")

\* ALTER DEFAULT PRIVILEGES IN SCHEMA ${schema} GRANT USAGE ON SEQUENCES TO ${rolename};
DefaultSequences(rolename, schema) ==
    Stmt("DEFAULT GRANT", {"USAGE"}, "SEQUENCES", schema, rolename, "")

\* REVOKE ALL PRIVILEGES ON ALL TABLES IN SCHEMA ${schema} FROM ${rolename};
RevokeTables(rolename, schema) ==
    Stmt("REVOKE", {"ALL"}, "ALL TABLES", schema, rolename, "")

\* REVOKE ALL PRIVILEGES ON ALL SEQUENCES IN SCHEMA ${schema} FROM ${rolename};
RevokeSequences(rolename, schema) ==
    Stmt("REVOKE", {"ALL"}, "ALL SEQUENCES", schema, rolename, "")

\* REVOKE ALL PRIVILEGES ON SCHEMA ${schema} FROM ${rolename};
RevokeSchema(rolename, schema) ==
    Stmt("REVOKE", {"ALL"}, "SCHEMA", schema, rolename, "")

\* REVOKE ALL PRIVILEGES ON DATABASE ${database} FROM ${rolename};
RevokeDatabase(rolename, database) ==
    Stmt("REVOKE", {"ALL"}, "DATABASE", database, rolename, "")

\* ALTER DEFAULT PRIVILEGES IN SCHEMA ${schema} REVOKE ALL PRIVILEGES ON TABLES FROM ${rolename};
RevokeDefaultTables(rolename, schema) ==
    Stmt("DEFAULT REVOKE", {"ALL"}, "TABLES", schema, rolename, "")

\* ALTER DEFAULT PRIVILEGES IN SCHEMA ${schema} REVOKE ALL PRIVILEGES ON SEQUENCES FROM ${rolename};
RevokeDefaultSequences(rolename, schema) ==
    Stmt("DEFAULT REVOKE", {"ALL"}, "SEQUENCES", schema, rolename, "")

\* a catalog query: the rows it selects, the conditions its WHERE clause adds
\* to them, and its bound parameter $1 (NoName when it has none)
Query(rows, conditions, parameter) ==
    Stmt("SELECT", conditions, rows, NoName, parameter, "")

\* AND rolname NOT LIKE 'pg\_%' AND rolname NOT LIKE 'rds\_%'
NoSystemRoles == {"NOT LIKE pg_", "NOT LIKE rds_"}

\* WHERE nspname NOT LIKE 'pg\_%' AND nspname != 'information_schema'
NoSystemSchemas == {"NOT LIKE pg_", "!= information_schema"}

\* SELECT ... FROM pg_roles WHERE rolcanlogin = true [AND ...] ORDER BY rolname;
SelectUsers(includeSystemUsers) ==
    Query("pg_roles WHERE rolcanlogin = true",
          IF ~includeSystemUsers THEN NoSystemRoles ELSE {}, NoName)

\* SELECT ... FROM pg_roles WHERE rolcanlogin = false [AND ...] ORDER BY rolname;
SelectRoles(includeSystemRoles) ==
    Query("pg_roles WHERE rolcanlogin = false",
          IF ~includeSystemRoles THEN NoSystemRoles ELSE {}, NoName)

\* SELECT nspname as schema_name FROM pg_namespace [WHERE ...] ORDER BY nspname;
SelectSchemas(includeSystemSchemas) ==
    Query("pg_namespace", IF includeSystemSchemas THEN {} ELSE NoSystemSchemas, NoName)

\* SELECT ... FROM pg_roles r JOIN pg_auth_members m ... WHERE u.rolname = $1 ORDER BY r.rolname;
SelectUserRoles(username) == Query("roles of member", {}, username)

\* SELECT rolname, rolsuper, ... FROM pg_roles WHERE rolname = $1;
SelectRoleInfo(rolename) == Query("pg_roles WHERE rolname", {}, rolename)

\* SELECT ... FROM information_schema.table_privileges WHERE grantee = $1 ORDER BY ...;
SelectTablePerms(rolename) == Query("table_privileges", {}, rolename)

\* SELECT r.rolname AS parent_role FROM pg_roles m JOIN pg_auth_members ... WHERE m.rolname = $1;
SelectMemberOf(rolename) == Query("parent roles", {}, rolename)

\* SELECT ... FROM information_schema.column_privileges WHERE grantee = $1 ORDER BY ...;
SelectColumnPerms(rolename) == Query("column_privileges", {}, rolename)

\* SELECT n.nspname AS schema_name, ... has_schema_privilege($1, n.oid, ...) ... ORDER BY n.nspname;
SelectSchemaPerms(rolename) == Query("schema privileges", {}, rolename)

\* SELECT datname AS database_name, ... has_database_privilege($1, oid, ...) ... ORDER BY datname;
SelectDbPerms(rolename) == Query("database privileges", {}, rolename)

-----------------------------------------------------------------------------
(* The services.  A service function is given by the statements it awaits,  *)
(* in order, and by the result it returns when none of them throws:         *)
(* success = FALSE is the { success: false, message } object of a rejected  *)
(* name.  A statement that throws ends the function (catch: log, rethrow).  *)

Plan(success, stmts) == [success |-> success, stmts |-> stmts]

\* userService.createUser
createUser(username, password) ==
    IF startsWith(username, pg_) \/ startsWith(username, rds_)
    THEN Plan(FALSE, <<>>)
    ELSE Plan(TRUE, <<CreateLoginStmt(username, password)>>)

\* userService.updateUserPassword
updateUserPassword(username, newPassword) ==
    IF startsWith(username, pg_) \/ startsWith(username, rds_)
    THEN Plan(FALSE, <<>>)
    ELSE Plan(TRUE, <<AlterPasswordStmt(username, newPassword)>>)

\* a guard that forgets the rds_ prefix
deleteUserPgOnly(username) ==
    IF startsWith(username, pg_)
    THEN Plan(FALSE, <<>>)
    ELSE Plan(TRUE, <<DropRoleStmt(username)>>)

\* userService.deleteUser
deleteUser(username) ==
    IF startsWith(username, pg_) \/ startsWith(username, rds_)
    THEN Plan(FALSE, <<>>)
    ELSE Plan(TRUE, <<DropRoleStmt(username)>>)

\* roleService.createRole
createRole(rolename) ==
    IF startsWith(rolename, pg_) \/ startsWith(rolename, rds_)
    THEN Plan(FALSE, <<>>)
    ELSE Plan(TRUE, <<CreateNoLoginStmt(rolename)>>)

\* roleService.deleteRole
deleteRole(rolename) ==
    IF startsWith(rolename, pg_) \/ startsWith(rolename, rds_)
    THEN Plan(FALSE, <<>>)
    ELSE Plan(TRUE, <<DropRoleStmt(rolename)>>)

\* roleService.assignUserToRole
assignUserToRole(username, rolename) ==
    Plan(TRUE, <<GrantMemberStmt(username, rolename)>>)

\* roleService.removeUserFromRole
removeUserFromRole(username, rolename) ==
    Plan(TRUE, <<RevokeMemberStmt(username, rolename)>>)

\* a read grant that forgets the tables that exist
grantReadWithoutSelect(rolename, database, schema) ==
    Plan(TRUE, <<GrantConnect(rolename, database),
                 GrantUsage(rolename, schema),
                 DefaultSelect(rolename, schema)>>)

\* permissionService.grantReadPermissions
grantReadPermissions(rolename, database, schema) ==
    Plan(TRUE, <<GrantConnect(rolename, database),
                 GrantUsage(rolename, schema),
                 GrantSelect(rolename, schema),
                 DefaultSelect(rolename, schema)>>)

\* a write grant that first clears what the role holds on the tables of the schema
grantWriteAfterReset(rolename, database, schema) ==
    Plan(TRUE, <<RevokeTables(rolename, schema)>>
               \o grantReadPermissions(rolename, database, schema).stmts
               \o <<GrantWrite(rolename, schema),
                    DefaultWrite(rolename, schema),
                    GrantSequences(rolename, schema),
                    DefaultSequences(rolename, schema)>>)

\* the write grant sent first, the read grant after it
grantWriteThenRead(rolename, database, schema) ==
    Plan(TRUE, <<GrantWrite(rolename, schema),
                 DefaultWrite(rolename, schema),
                 GrantSequences(rolename, schema),
                 DefaultSequences(rolename, schema)>>
               \o grantReadPermissions(rolename, database, schema).stmts)

\* permissionService.grantWritePermissions: awaits grantReadPermissions first
grantWritePermissions(rolename, database, schema) ==
    Plan(TRUE, grantReadPermissions(rolename, database, schema).stmts
               \o <<GrantWrite(rolename, schema),
                    DefaultWrite(rolename, schema),
                    GrantSequences(rolename, schema),
                    DefaultSequences(rolename, schema)>>)

\* a revocation that forgets the schema itself
revokeWithoutSchema(rolename, database, schema) ==
    Plan(TRUE, <<RevokeTables(rolename, schema),
                 RevokeSequences(rolename, schema),
                 RevokeDatabase(rolename, database),
                 RevokeDefaultTables(rolename, schema),
                 RevokeDefaultSequences(rolename, schema)>>)

\* a revocation that forgets the default rules
revokeWithoutDefaults(rolename, database, schema) ==
    Plan(TRUE, <<RevokeTables(rolename, schema),
                 RevokeSequences(rolename, schema),
                 RevokeSchema(rolename, schema),
                 RevokeDatabase(rolename, database)>>)

\* permissionService.revokeAllPermissions
revokeAllPermissions(rolename, database, schema) ==
    Plan(TRUE, <<RevokeTables(rolename, schema),
                 RevokeSequences(rolename, schema),
                 RevokeSchema(rolename, schema),
                 RevokeDatabase(rolename, database),
                 RevokeDefaultTables(rolename, schema),
                 RevokeDefaultSequences(rolename, schema)>>)

\* the body of the for loop of grantReadPermissionsMulti, over the whole list
RECURSIVE ReadLoop(_, _)
ReadLoop(rolename, schemas) ==
    IF schemas = <<>> THEN <<>>
    ELSE <<GrantUsage(rolename, Head(schemas)),
           GrantSelect(rolename, Head(schemas)),
           DefaultSelect(rolename, Head(schemas))>>
         \o ReadLoop(rolename, Tail(schemas))

\* the body of the for loop of grantWritePermissionsMulti, over the whole list
RECURSIVE WriteLoop(_, _)
WriteLoop(rolename, schemas) ==
    IF schemas = <<>> THEN <<>>
    ELSE <<GrantWrite(rolename, Head(schemas)),
           DefaultWrite(rolename, Head(schemas)),
           GrantSequences(rolename, Head(schemas)),
           DefaultSequences(rolename, Head(schemas))>>
         \o WriteLoop(rolename, Tail(schemas))

\* the body of the for loop of revokeAllPermissionsMulti, over the whole list
RECURSIVE RevokeLoop(_, _)
RevokeLoop(rolename, schemas) ==
    IF schemas = <<>> THEN <<>>
    ELSE <<RevokeTables(rolename, Head(schemas)),
           RevokeSequences(rolename, Head(schemas)),
           RevokeSchema(rolename, Head(schemas)),
           RevokeDefaultTables(rolename, Head(schemas)),
           RevokeDefaultSequences(rolename, Head(schemas))>>
         \o RevokeLoop(rolename, Tail(schemas))

\* the CONNECT grant moved into the loop: sent once per schema
RECURSIVE ConnectInLoop(_, _, _)
ConnectInLoop(rolename, database, schemas) ==
    IF schemas = <<>> THEN <<>>
    ELSE <<GrantConnect(rolename, database),
           GrantUsage(rolename, Head(schemas)),
           GrantSelect(rolename, Head(schemas)),
           DefaultSelect(rolename, Head(schemas))>>
         \o ConnectInLoop(rolename, database, Tail(schemas))

grantReadMultiConnectPerSchema(rolename, database, schemas) ==
    Plan(TRUE, ConnectInLoop(rolename, database, schemas))

\* permissionService.grantReadPermissionsMulti
grantReadPermissionsMulti(rolename, database, schemas) ==
    Plan(TRUE, <<GrantConnect(rolename, database)>> \o ReadLoop(rolename, schemas))

\* read and write grants of one schema before the next schema is touched
RECURSIVE WholeSchemaLoop(_, _)
WholeSchemaLoop(rolename, schemas) ==
    IF schemas = <<>> THEN <<>>
    ELSE <<GrantUsage(rolename, Head(schemas)),
           GrantSelect(rolename, Head(schemas)),
           DefaultSelect(rolename, Head(schemas)),
           GrantWrite(rolename, Head(schemas)),
           DefaultWrite(rolename, Head(schemas)),
           GrantSequences(rolename, Head(schemas)),
           DefaultSequences(rolename, Head(schemas))>>
         \o WholeSchemaLoop(rolename, Tail(schemas))

grantWriteMultiSchemaBySchema(rolename, database, schemas) ==
    Plan(TRUE, <<GrantConnect(rolename, database)>> \o WholeSchemaLoop(rolename, schemas))

\* permissionService.grantWritePermissionsMulti: awaits grantReadPermissionsMulti first
grantWritePermissionsMulti(rolename, database, schemas) ==
    Plan(TRUE, grantReadPermissionsMulti(rolename, database, schemas).stmts
               \o WriteLoop(rolename, schemas))

\* permissionService.revokeAllPermissionsMulti
revokeAllPermissionsMulti(rolename, database, schemas) ==
    Plan(TRUE, RevokeLoop(rolename, schemas) \o <<RevokeDatabase(rolename, database)>>)

\* userService.listUsers
listUsers(includeSystemUsers) == Plan(TRUE, <<SelectUsers(includeSystemUsers)>>)

\* a listing that never filters the system roles out
listRolesUnfiltered(includeSystemRoles) == Plan(TRUE, <<SelectRoles(TRUE)>>)

\* roleService.listRoles
listRoles(includeSystemRoles) == Plan(TRUE, <<SelectRoles(includeSystemRoles)>>)

\* a reader that also drops the memberships it has listed
listUserRolesThenRevoke(username) ==
    Plan(TRUE, <<SelectUserRoles(username), RevokeMemberStmt(username, n_ab)>>)

\* roleService.listUserRoles
listUserRoles(username) == Plan(TRUE, <<SelectUserRoles(username)>>)

\* permissionService.listSchemas
listSchemas(includeSystemSchemas) == Plan(TRUE, <<SelectSchemas(includeSystemSchemas)>>)

\* permissionService.listPermissions
listPermissions(rolename) ==
    Plan(TRUE, <<SelectRoleInfo(rolename),
                 SelectTablePerms(rolename),
                 SelectMemberOf(rolename),
                 SelectColumnPerms(rolename),
                 SelectSchemaPerms(rolename),
                 SelectDbPerms(rolename)>>)

\* the delete-user command: the list of users, the prompts (user, confirm),
\* and the deletion when confirmed
deleteUserCommand(username, confirm) ==
    Plan(TRUE, listUsers(FALSE).stmts
               \o (IF confirm THEN deleteUser(username).stmts ELSE <<>>))

\* a delete-role command that does not look at the answer
deleteRoleCommandUnconfirmed(rolename, confirm) ==
    Plan(TRUE, listRoles(FALSE).stmts \o deleteRole(rolename).stmts)

\* the delete-role command: the list of roles, the prompts (role, confirm),
\* and the deletion when confirmed
deleteRoleCommand(rolename, confirm) ==
    Plan(TRUE, listRoles(FALSE).stmts
               \o (IF confirm THEN deleteRole(rolename).stmts ELSE <<>>))

\* the revoke-permissions command: the list of roles, the prompts (role,
\* database), the list of schemas, the schema selection, the confirmation, and
\* the single-schema or the multi-schema revocation when confirmed
revokePermissionsCommand(rolename, database, selectedSchemas, confirm) ==
    Plan(TRUE, listRoles(FALSE).stmts
               \o listSchemas(FALSE).stmts
               \o (IF selectedSchemas = <<>> \/ ~confirm THEN <<>>
                   ELSE IF Len(selectedSchemas) = 1
                   THEN revokeAllPermissions(rolename, database, selectedSchemas[1]).stmts
                   ELSE revokeAllPermissionsMulti(rolename, database, selectedSchemas).stmts))

\* the create-user command: the prompts (username, password), then createUser
createUserCommand(username, password) ==
    Plan(createUser(username, password).success, createUser(username, password).stmts)

\* the update-user-password command: the list of users, the prompts (user,
\* password), then updateUserPassword
updateUserPasswordCommand(username, password) ==
    Plan(updateUserPassword(username, password).success,
         listUsers(FALSE).stmts \o updateUserPassword(username, password).stmts)

\* a grant-read-permissions command that does not look at the length of the selection
grantReadCommandUnchecked(rolename, database, selectedSchemas) ==
    Plan(TRUE, listRoles(FALSE).stmts
               \o listSchemas(FALSE).stmts
               \o (IF Len(selectedSchemas) = 1
                   THEN grantReadPermissions(rolename, database, selectedSchemas[1]).stmts
                   ELSE grantReadPermissionsMulti(rolename, database, selectedSchemas).stmts))

\* the grant-read-permissions command: the list of roles, the prompts (role,
\* database), the list of schemas, the schema selection, and the single-schema or
\* the multi-schema grant unless the selection is empty
grantReadCommand(rolename, database, selectedSchemas) ==
    Plan(TRUE, listRoles(FALSE).stmts
               \o listSchemas(FALSE).stmts
               \o (IF selectedSchemas = <<>> THEN <<>>
                   ELSE IF Len(selectedSchemas) = 1
                   THEN grantReadPermissions(rolename, database, selectedSchemas[1]).stmts
                   ELSE grantReadPermissionsMulti(rolename, database, selectedSchemas).stmts))

\* the grant-write-permissions command: as grant-read-permissions, with the write grants
grantWriteCommand(rolename, database, selectedSchemas) ==
    Plan(TRUE, listRoles(FALSE).stmts
               \o listSchemas(FALSE).stmts
               \o (IF selectedSchemas = <<>> THEN <<>>
                   ELSE IF Len(selectedSchemas) = 1
                   THEN grantWritePermissions(rolename, database, selectedSchemas[1]).stmts
                   ELSE grantWritePermissionsMulti(rolename, database, selectedSchemas).stmts))

\* the list-permissions command: the list of roles (all of them with
\* --system-roles), the prompt (role) unless the list is empty, and the report
listPermissionsCommand(rolename, systemRoles) ==
    Plan(TRUE, listRoles(systemRoles).stmts
               \o (IF rolename = NoName THEN <<>> ELSE listPermissions(rolename).stmts))

\* a call: the function's name and its arguments (NoName, <<>> or "" when it has
\* none); option is its boolean argument or answer (includeSystem..., confirm),
\* FALSE when it has none
CallWith(name, username, rolename, database, schemas, password, option) ==
    [name |-> name, username |-> username, rolename |-> rolename,
     database |-> database, schemas |-> schemas, password |-> password,
     option |-> option]

Call(name, username, rolename, database, schemas, password) ==
    CallWith(name, username, rolename, database, schemas, password, FALSE)

NoCall == Call("", NoName, NoName, NoName, <<>>, "")

\* the plan of a call
Program(c) ==
    CASE c.name = "createUser" -> createUser(c.username, c.password)
      [] c.name = "updateUserPassword" -> updateUserPassword(c.username, c.password)
      [] c.name = "deleteUser" -> deleteUser(c.username)
      [] c.name = "createRole" -> createRole(c.rolename)
      [] c.name = "deleteRole" -> deleteRole(c.rolename)
      [] c.name = "assignUserToRole" -> assignUserToRole(c.username, c.rolename)
      [] c.name = "removeUserFromRole" -> removeUserFromRole(c.username, c.rolename)
      [] c.name = "grantReadPermissions" ->
            grantReadPermissions(c.rolename, c.database, c.schemas[1])
      [] c.name = "grantWritePermissions" ->
            grantWritePermissions(c.rolename, c.database, c.schemas[1])
      [] c.name = "revokeAllPermissions" ->
            revokeAllPermissions(c.rolename, c.database, c.schemas[1])
      [] c.name = "grantReadPermissionsMulti" ->
            grantReadPermissionsMulti(c.rolename, c.database, c.schemas)
      [] c.name = "grantWritePermissionsMulti" ->
            grantWritePermissionsMulti(c.rolename, c.database, c.schemas)
      [] c.name = "revokeAllPermissionsMulti" ->
            revokeAllPermissionsMulti(c.rolename, c.database, c.schemas)
      [] c.name = "listUsers" -> listUsers(c.option)
      [] c.name = "listRoles" -> listRoles(c.option)
      [] c.name = "listUserRoles" -> listUserRoles(c.username)
      [] c.name = "listSchemas" -> listSchemas(c.option)
      [] c.name = "listPermissions" -> listPermissions(c.rolename)
      [] c.name = "delete-user" -> deleteUserCommand(c.username, c.option)
      [] c.name = "delete-role" -> deleteRoleCommand(c.rolename, c.option)
      [] c.name = "revoke-permissions" ->
            revokePermissionsCommand(c.rolename, c.database, c.schemas, c.option)
      [] c.name = "list-permissions" -> listPermissionsCommand(c.rolename, c.option)
      [] c.name = "create-user" -> createUserCommand(c.username, c.password)
      [] c.name = "update-user-password" ->
            updateUserPasswordCommand(c.username, c.password)
      [] c.name = "grant-read-permissions" ->
            grantReadCommand(c.rolename, c.database, c.schemas)
      [] c.name = "grant-write-permissions" ->
            grantWriteCommand(c.rolename, c.database, c.schemas)
      [] OTHER -> Plan(TRUE, <<>>)

-----------------------------------------------------------------------------
(* The database: what a statement does once PostgreSQL has parsed it.  The  *)
(* services interpolate every identifier unquoted, so each one is resolved  *)
(* to its folded name.                                                      *)

Role(stmt) == Fold(stmt.role)

Obj(stmt) == Fold(stmt.obj)

IsPrivilegeStmt(stmt) == stmt.verb \in {"GRANT", "REVOKE"} /\ stmt.scope # "ROLE"

IsDefaultStmt(stmt) == stmt.verb \in {"DEFAULT GRANT", "DEFAULT REVOKE"}

\* the statement is well-formed SQL: each interpolated name reads as one identifier
Parses(stmt) ==
    /\ IsIdentifier(stmt.role)
    /\ stmt.obj # NoName => IsIdentifier(stmt.obj)

Kind(scope) == IF scope \in {"ALL TABLES", "TABLES"} THEN "TABLE" ELSE "SEQUENCE"

\* the objects ON ALL TABLES / ON ALL SEQUENCES IN SCHEMA names at this moment
ObjectsIn(kind, schema) ==
    {o.id : o \in {x \in objects : x.kind = kind /\ x.schema = schema}}

HoldsAny(role) ==
    \/ \E t \in dbAcl : t[2] = role
    \/ \E t \in nsAcl : t[2] = role
    \/ \E t \in relAcl : t[2] = role
    \/ \E t \in defAcl : t[3] = role

\* whether the database accepts the statement; otherwise db.query rejects.
\* PostgreSQL refuses a statement it cannot parse, refuses to create, alter or
\* drop its predefined pg_ roles,
\* refuses to drop a role that still holds privileges, and knows no rds_ rule.
CanSucceed(stmt) ==
    CASE stmt.verb = "SELECT" -> TRUE
      [] ~Parses(stmt) -> FALSE
      [] stmt.verb = "CREATE ROLE" ->
            Role(stmt) \notin DOMAIN pgRoles /\ ~startsWith(Role(stmt), pg_)
      [] stmt.verb = "ALTER ROLE" ->
            Role(stmt) \in DOMAIN pgRoles /\ ~startsWith(Role(stmt), pg_)
      [] stmt.verb = "DROP ROLE" ->
            /\ Role(stmt) \in DOMAIN pgRoles
            /\ ~startsWith(Role(stmt), pg_)
            /\ ~HoldsAny(Role(stmt))
      [] stmt.scope = "ROLE" ->
            /\ Role(stmt) \in DOMAIN pgRoles
            /\ Obj(stmt) \in DOMAIN pgRoles
            /\ Role(stmt) # Obj(stmt)
      [] stmt.scope = "DATABASE" ->
            Role(stmt) \in DOMAIN pgRoles /\ Obj(stmt) = db1
      [] OTHER -> Role(stmt) \in DOMAIN pgRoles /\ Obj(stmt) \in namespaces

RolesAfter(stmt) ==
    CASE stmt.verb = "CREATE ROLE" ->
            [n \in DOMAIN pgRoles \cup {Role(stmt)} |->
                IF n = Role(stmt)
                THEN [login |-> stmt.scope = "LOGIN", password |-> stmt.password]
                ELSE pgRoles[n]]
      [] stmt.verb = "ALTER ROLE" ->
            [pgRoles EXCEPT ![Role(stmt)].password = stmt.password]
      [] stmt.verb = "DROP ROLE" ->
            [n \in DOMAIN pgRoles \ {Role(stmt)} |-> pgRoles[n]]
      [] OTHER -> pgRoles

MembersAfter(stmt) ==
    CASE stmt.verb = "GRANT" /\ stmt.scope = "ROLE" ->
            members \cup {<<Role(stmt), Obj(stmt)>>}
      [] stmt.verb = "REVOKE" /\ stmt.scope = "ROLE" ->
            members \ {<<Role(stmt), Obj(stmt)>>}
      [] stmt.verb = "DROP ROLE" ->
            {m \in members : m[1] # Role(stmt) /\ m[2] # Role(stmt)}
      [] OTHER -> members

DbAclAfter(stmt) ==
    CASE stmt.verb = "GRANT" /\ stmt.scope = "DATABASE" ->
            dbAcl \cup {<<Obj(stmt), Role(stmt), p>> : p \in stmt.privs}
      [] stmt.verb = "REVOKE" /\ stmt.scope = "DATABASE" ->
            {t \in dbAcl : ~(t[1] = Obj(stmt) /\ t[2] = Role(stmt))}
      [] OTHER -> dbAcl

NsAclAfter(stmt) ==
    CASE stmt.verb = "GRANT" /\ stmt.scope = "SCHEMA" ->
            nsAcl \cup {<<Obj(stmt), Role(stmt), p>> : p \in stmt.privs}
      [] stmt.verb = "REVOKE" /\ stmt.scope = "SCHEMA" ->
            {t \in nsAcl : ~(t[1] = Obj(stmt) /\ t[2] = Role(stmt))}
      [] OTHER -> nsAcl

RelAclAfter(stmt) ==
    CASE stmt.verb = "GRANT" /\ stmt.scope \in {"ALL TABLES", "ALL SEQUENCES"} ->
            relAcl \cup {<<id, Role(stmt), p>> :
                            id \in ObjectsIn(Kind(stmt.scope), Obj(stmt)),
                            p \in stmt.privs}
      [] stmt.verb = "REVOKE" /\ stmt.scope \in {"ALL TABLES", "ALL SEQUENCES"} ->
            {t \in relAcl :
                ~(t[1] \in ObjectsIn(Kind(stmt.scope), Obj(stmt)) /\ t[2] = Role(stmt))}
      [] OTHER -> relAcl

\* ALTER DEFAULT PRIVILEGES without FOR ROLE: the rule is recorded for the
\* role that runs the statement and covers the objects that role creates
DefAclAfter(stmt) ==
    CASE stmt.verb = "DEFAULT GRANT" ->
            defAcl \cup {<<Obj(stmt), Kind(stmt.scope), Role(stmt), p>> : p \in stmt.privs}
      [] stmt.verb = "DEFAULT REVOKE" ->
            {t \in defAcl :
                ~(t[1] = Obj(stmt) /\ t[2] = Kind(stmt.scope) /\ t[3] = Role(stmt))}
      [] OTHER -> defAcl

\* the statement is executed (autocommit: pool.query, no transaction)
Execute(stmt) ==
    /\ pgRoles' = RolesAfter(stmt)
    /\ members' = MembersAfter(stmt)
    /\ dbAcl' = DbAclAfter(stmt)
    /\ nsAcl' = NsAclAfter(stmt)
    /\ relAcl' = RelAclAfter(stmt)
    /\ defAcl' = DefAclAfter(stmt)
    /\ UNCHANGED <<objects, namespaces>>

\* listPermissions: information_schema.table_privileges WHERE grantee = $1
\* (the name is a bound parameter here: it is compared as typed, not folded)
tablePermissions(rolename) ==
    {[table_schema |-> r[1].schema, table_name |-> r[1].id, privilege_type |-> r[2][3]] :
        r \in {x \in objects \X relAcl :
                  x[1].kind = "TABLE" /\ x[2][1] = x[1].id /\ x[2][2] = rolename}}

\* listPermissions: information_schema.column_privileges WHERE grantee = $1;
\* a table-level grant of a column privilege shows on every column of the table
columnPermissions(rolename) ==
    {[table_schema |-> r.table_schema, table_name |-> r.table_name,
      column_name |-> "c1", privilege_type |-> r.privilege_type] :
        r \in {x \in tablePermissions(rolename) :
                  x.privilege_type \in {"SELECT", "INSERT", "UPDATE", "REFERENCES"}}}

\* listPermissions: the schemas with has_schema_privilege($1, oid, 'CREATE' | 'USAGE')
schemaPermissions(rolename) ==
    {[schema_name |-> t[1], privilege |-> t[3]] : t \in {x \in nsAcl : x[2] = rolename}}

\* listPermissions: the databases with has_database_privilege($1, oid, ...)
databasePermissions(rolename) ==
    {[database_name |-> t[1], privilege |-> t[3]] : t \in {x \in dbAcl : x[2] = rolename}}

\* s LIKE 'p%' for a pattern whose characters are all literal (the _ is escaped)
Like(s, p) == Len(s) >= Len(p) /\ \A i \in 1..Len(p) : s[i] = p[i]

\* the names of pg_roles that pass the WHERE clause of listUsers / listRoles
RolesWhere(canLogin, conditions) ==
    {n \in DOMAIN pgRoles :
        /\ pgRoles[n].login = canLogin
        /\ ("NOT LIKE pg_" \in conditions => ~Like(n, pg_))
        /\ ("NOT LIKE rds_" \in conditions => ~Like(n, rds_))}

\* the names of pg_namespace that pass the WHERE clause of listSchemas
SchemasWhere(conditions) ==
    {n \in namespaces :
        /\ ("NOT LIKE pg_" \in conditions => ~Like(n, pg_))
        /\ ("!= information_schema" \in conditions => n # n_information_schema)}

PrivilegeOrder ==
    <<"CONNECT", "CREATE", "DELETE", "INSERT", "REFERENCES", "SELECT", "TEMP",
      "TRIGGER", "TRUNCATE", "UPDATE", "USAGE">>

PrivOrd(p) == CHOOSE i \in 1..Len(PrivilegeOrder) : PrivilegeOrder[i] = p

\* ORDER BY table_schema, table_name, [column_name,] privilege_type
\* (every table of the model has the one column c1)
RowLess(x, y) ==
    IF x.table_schema # y.table_schema THEN NameLess(x.table_schema, y.table_schema)
    ELSE IF x.table_name # y.table_name THEN NameLess(x.table_name, y.table_name)
    ELSE PrivOrd(x.privilege_type) < PrivOrd(y.privilege_type)

RECURSIVE OrderRows(_)
OrderRows(S) ==
    IF S = {} THEN <<>>
    ELSE LET m == CHOOSE x \in S : \A y \in S \ {x} : RowLess(x, y)
         IN <<m>> \o OrderRows(S \ {m})

\* result.rows of a catalog query, computed on the catalog as it is now
Answer(stmt) ==
    CASE stmt.scope = "pg_roles WHERE rolcanlogin = true" ->
            LET q == OrderByName(RolesWhere(TRUE, stmt.privs))
            IN [i \in 1..Len(q) |->
                   [username |-> q[i], is_superuser |-> FALSE,
                    can_create_role |-> FALSE, can_login |-> pgRoles[q[i]].login]]
      [] stmt.scope = "pg_roles WHERE rolcanlogin = false" ->
            LET q == OrderByName(RolesWhere(FALSE, stmt.privs))
            IN [i \in 1..Len(q) |->
                   [rolename |-> q[i], is_superuser |-> FALSE,
                    can_create_role |-> FALSE, can_login |-> pgRoles[q[i]].login]]
      [] stmt.scope = "pg_namespace" ->
            LET q == OrderByName(SchemasWhere(stmt.privs))
            IN [i \in 1..Len(q) |-> [schema_name |-> q[i]]]
      [] stmt.scope = "roles of member" ->
            LET q == OrderByName({m[2] : m \in {x \in members : x[1] = stmt.role}})
            IN [i \in 1..Len(q) |->
                   [rolename |-> q[i], is_superuser |-> FALSE, can_create_role |-> FALSE]]
      [] stmt.scope = "pg_roles WHERE rolname" ->
            IF stmt.role \in DOMAIN pgRoles
            THEN <<[rolname |-> stmt.role, rolsuper |-> FALSE, rolcreaterole |-> FALSE,
                    rolcreatedb |-> FALSE, rolcanlogin |-> pgRoles[stmt.role].login]>>
            ELSE <<>>
      [] stmt.scope = "table_privileges" ->
            OrderRows({[table_schema |-> x.table_schema,
                        table_name |-> RelName(x.table_name),
                        privilege_type |-> x.privilege_type] :
                          x \in tablePermissions(stmt.role)})
      [] stmt.scope = "parent roles" ->
            LET q == OrderByName({m[2] : m \in {x \in members : x[1] = stmt.role}})
            IN [i \in 1..Len(q) |-> [parent_role |-> q[i]]]
      [] stmt.scope = "column_privileges" ->
            OrderRows({[table_schema |-> x.table_schema,
                        table_name |-> RelName(x.table_name),
                        column_name |-> n_c1,
                        privilege_type |-> x.privilege_type] :
                          x \in columnPermissions(stmt.role)})
      [] stmt.scope = "schema privileges" ->
            LET held == schemaPermissions(stmt.role)
                q == OrderByName({x.schema_name : x \in held}
                                   \ {n_pg_catalog, n_information_schema})
            IN [i \in 1..Len(q) |->
                   [schema_name |-> q[i],
                    create_privilege |->
                        IF [schema_name |-> q[i], privilege |-> "CREATE"] \in held
                        THEN "CREATE" ELSE "",
                    usage_privilege |->
                        IF [schema_name |-> q[i], privilege |-> "USAGE"] \in held
                        THEN "USAGE" ELSE ""]]
      [] stmt.scope = "database privileges" ->
            LET held == databasePermissions(stmt.role)
                q == OrderByName({x.database_name : x \in held})
            IN [i \in 1..Len(q) |->
                   [database_name |-> q[i],
                    connect_privilege |->
                        IF [database_name |-> q[i], privilege |-> "CONNECT"] \in held
                        THEN "CONNECT" ELSE "",
                    create_privilege |->
                        IF [database_name |-> q[i], privilege |-> "CREATE"] \in held
                        THEN "CREATE" ELSE "",
                    temp_privilege |->
                        IF [database_name |-> q[i], privilege |-> "TEMP"] \in held
                        THEN "TEMP" ELSE ""]]
      [] OTHER -> <<>>

\* an error object: its cause, the identifiers its message quotes, and the
\* labels (operation, phase) a service attached to it
Error(cause, identifiers, labels) ==
    [cause |-> cause, identifiers |-> identifiers, labels |-> labels]

NoError == Error("", {}, {})

\* the identifier the message of a rejected statement quotes, as in
\* role "x" does not exist / already exists / cannot be dropped
Offending(stmt) ==
    IF stmt.scope = "ROLE" /\ Role(stmt) \in DOMAIN pgRoles /\ Obj(stmt) \notin DOMAIN pgRoles
    THEN Obj(stmt)
    ELSE Role(stmt)

\* the error pool.query rejects with: the database's own error when it refuses
\* the statement, a connection error otherwise
DbError(stmt) ==
    IF CanSucceed(stmt)
    THEN Error("connection", {}, {})
    ELSE Error("database", {Offending(stmt)}, {})

\* a value returned to the caller: rows, schema names, or a permissions object
Value(kind, rows, permissions) == [kind |-> kind, rows |-> rows, permissions |-> permissions]

\* the permissions object of listPermissions
Permissions(roleDetails, tablePerms, memberOf, columnPerms, schemaPerms, dbPerms) ==
    [roleDetails |-> roleDetails,
     tablePermissions |-> tablePerms,
     schemaPermissions |-> schemaPerms,
     databasePermissions |-> dbPerms,
     columnPermissions |-> columnPerms,
     functionPermissions |-> <<>>,
     defaultPrivileges |-> <<>>,
     memberOf |-> memberOf]

\* {} : an object whose properties are all undefined (falsy)
EmptyObject ==
    [rolname |-> NoName, rolsuper |-> FALSE, rolcreaterole |-> FALSE,
     rolcreatedb |-> FALSE, rolcanlogin |-> FALSE]

NoPermissions == Permissions(EmptyObject, <<>>, <<>>, <<>>, <<>>, <<>>)

NoValue == Value("none", <<>>, NoPermissions)

\* what the function returns once its queries have resolved with answers f
ReturnValue(c, f) ==
    CASE c.name \in {"listUsers", "listRoles", "listUserRoles"} ->
            Value("rows", f[1], NoPermissions)
      [] c.name = "listSchemas" ->
            Value("names", [i \in 1..Len(f[1]) |-> f[1][i].schema_name], NoPermissions)
      [] c.name = "listPermissions" ->
            Value("permissions", <<>>,
                  Permissions(IF f[1] # <<>> THEN f[1][1] ELSE EmptyObject,
                              f[2], f[3], f[4], f[5], f[6]))
      [] c.name = "list-permissions" /\ c.rolename # NoName ->
            Value("permissions", <<>>,
                  Permissions(IF f[2] # <<>> THEN f[2][1] ELSE EmptyObject,
                              f[3], f[4], f[5], f[6], f[7]))
      [] OTHER -> NoValue

\* the tables and sequences the database starts with
InitObjects ==
    {[id |-> 1, kind |-> "TABLE", schema |-> s1, creator |-> OtherOwner],
     [id |-> 2, kind |-> "SEQUENCE", schema |-> s1, creator |-> OtherOwner]}

\* a table and a sequence of the second schema
OtherSchemaObjects ==
    {[id |-> 5, kind |-> "TABLE", schema |-> s2, creator |-> OtherOwner],
     [id |-> 6, kind |-> "SEQUENCE", schema |-> s2, creator |-> OtherOwner]}

\* the tables that are created later, by the session user and by another owner
LaterObjects ==
    {[id |-> 3, kind |-> "TABLE", schema |-> s1, creator |-> SessionUser],
     [id |-> 4, kind |-> "TABLE", schema |-> s1, creator |-> OtherOwner]}

-----------------------------------------------------------------------------
(* The run of a call. *)

\* what is printed: a message, or the summary and the grouped privileges of a role
Output(kind, message, summary, tables, columns) ==
    [kind |-> kind, message |-> message, summary |-> summary,
     tables |-> tables, columns |-> columns]

NoSummary ==
    [hasRead |-> FALSE, hasWrite |-> FALSE, hasAdmin |-> FALSE,
     totalTables |-> 0, totalColumns |-> 0]

NoOutput == Output("none", "", NoSummary, <<>>, <<>>)

Commands ==
    {"delete-user", "delete-role", "revoke-permissions", "list-permissions",
     "grant-read-permissions", "grant-write-permissions",
     "create-user", "update-user-password"}

\* console.log of a command that ran to its end
Printed(c) ==
    CASE c.name \in {"delete-user", "delete-role"} ->
            IF c.option THEN "result.message" ELSE "Delete operation cancelled"
      [] c.name = "revoke-permissions" ->
            IF c.schemas = <<>> THEN "Error: No schemas selected."
            ELSE IF c.option THEN "result.message"
            ELSE "Revoke operation cancelled"
      [] c.name = "list-permissions" ->
            IF c.rolename = NoName THEN "No roles found regular roles" ELSE ""
      [] c.name \in {"grant-read-permissions", "grant-write-permissions"} ->
            IF c.schemas = <<>> THEN "Error: No schemas selected." ELSE "result.message"
      [] c.name \in {"create-user", "update-user-password"} -> "result.message"
      [] OTHER -> ""

Start(c) ==
    /\ pc = 0
    /\ nops < MaxOps
    /\ call' = c
    /\ pc' = 1
    /\ log' = <<>>
    /\ result' = "pending"
    /\ prev' = IF result = "success" /\ call.name = "grantWritePermissions"
               THEN call ELSE NoCall
    /\ nops' = nops + 1
    /\ error' = NoError
    /\ fetched' = <<>>
    /\ ret' = NoValue
    /\ out' = NoOutput
    /\ UNCHANGED dbVars
    /\ UNCHANGED toolVars

\* the promise of db.query(...) resolves: the database has executed the statement
Resolve ==
    /\ pc \in 1..Len(Program(call).stmts)
    /\ CanSucceed(Program(call).stmts[pc])
    /\ Execute(Program(call).stmts[pc])
    /\ log' = Append(log, Program(call).stmts[pc])
    /\ pc' = pc + 1
    /\ fetched' = IF Program(call).stmts[pc].verb = "SELECT"
                  THEN Append(fetched, Answer(Program(call).stmts[pc]))
                  ELSE fetched
    /\ UNCHANGED <<call, result, prev, nops, error, ret, out>>

\* await db.query(...) resolves
QueryOk ==
    /\ Resolve
    /\ UNCHANGED toolVars

\* a catch block that rolls the grants of the call back before it rethrows
QueryFailRollback ==
    /\ pc \in 1..Len(Program(call).stmts)
    /\ log' = Append(log, Program(call).stmts[pc])
    /\ pc' = 0
    /\ result' = "raised"
    /\ LET done == {log[i] : i \in 1..Len(log)}
           grants(scopes) == {st \in done : st.verb = "GRANT" /\ st.scope \in scopes}
       IN /\ dbAcl' = dbAcl \ UNION {{<<Obj(st), Role(st), p>> : p \in st.privs} :
                                      st \in grants({"DATABASE"})}
          /\ nsAcl' = nsAcl \ UNION {{<<Obj(st), Role(st), p>> : p \in st.privs} :
                                      st \in grants({"SCHEMA"})}
          /\ relAcl' = relAcl \ UNION {{<<id, Role(st), p>> :
                                          id \in ObjectsIn(Kind(st.scope), Obj(st)),
                                          p \in st.privs} :
                                        st \in grants({"ALL TABLES", "ALL SEQUENCES"})}
          /\ defAcl' = defAcl \ UNION {{<<Obj(st), Kind(st.scope), Role(st), p>> :
                                          p \in st.privs} :
                                        st \in {x \in done : x.verb = "DEFAULT GRANT"}}
    /\ error' = DbError(Program(call).stmts[pc])
    /\ UNCHANGED <<call, prev, nops, pgRoles, members, objects, namespaces, fetched, ret, out>>
    /\ UNCHANGED toolVars

\* a catch block that hands back what was collected before the failure
QueryFailPartial ==
    /\ pc \in 1..Len(Program(call).stmts)
    /\ log' = Append(log, Program(call).stmts[pc])
    /\ pc' = 0
    /\ result' = "raised"
    /\ error' = DbError(Program(call).stmts[pc])
    /\ ret' = ReturnValue(call, fetched \o <<<<>>, <<>>, <<>>, <<>>, <<>>, <<>>>>)
    /\ UNCHANGED <<call, prev, nops, fetched, out>>
    /\ UNCHANGED dbVars
    /\ UNCHANGED toolVars

\* a catch block that logs the error and lets the function return its success
QueryFailSwallowed ==
    /\ pc \in 1..Len(Program(call).stmts)
    /\ log' = Append(log, Program(call).stmts[pc])
    /\ pc' = 0
    /\ result' = "success"
    /\ UNCHANGED <<call, prev, nops, error, fetched, ret, out>>
    /\ UNCHANGED dbVars
    /\ UNCHANGED toolVars

\* the promise of db.query(...) rejects: catch (err) { console.error(...); throw err; }
Reject ==
    /\ pc \in 1..Len(Program(call).stmts)
    /\ log' = Append(log, Program(call).stmts[pc])
    /\ pc' = 0
    /\ result' = "raised"
    /\ error' = DbError(Program(call).stmts[pc])
    /\ out' = IF call.name \in Commands
              THEN Output("message", "Error: err.message", NoSummary, <<>>, <<>>)
              ELSE out
    /\ UNCHANGED <<call, prev, nops, fetched, ret>>
    /\ UNCHANGED dbVars

\* await db.query(...) rejects
QueryFail ==
    /\ Reject
    /\ UNCHANGED toolVars

\* db.query(...) is called while a statement may still be in flight (no await)
SendQueryUnawaited ==
    /\ pc # 0
    /\ pc + inflight \in 1..Len(Program(call).stmts)
    /\ inflight < 2
    /\ inflight' = inflight + 1
    /\ UNCHANGED <<call, pc, log, result, prev, nops, error, fetched, ret, out>>
    /\ UNCHANGED <<generated, client, csv>>
    /\ UNCHANGED dbVars

\* db.query(...) is called: every call is awaited, so the statement before it
\* has been answered
SendQuery ==
    /\ pc \in 1..Len(Program(call).stmts)
    /\ inflight = 0
    /\ inflight' = inflight + 1
    /\ UNCHANGED <<call, pc, log, result, prev, nops, error, fetched, ret, out>>
    /\ UNCHANGED <<generated, client, csv>>
    /\ UNCHANGED dbVars

\* the result of the statement in flight arrives
ReceiveOk ==
    /\ inflight > 0
    /\ Resolve
    /\ inflight' = inflight - 1
    /\ UNCHANGED <<generated, client, csv>>

\* the statement in flight fails
ReceiveFail ==
    /\ inflight > 0
    /\ Reject
    /\ inflight' = inflight - 1
    /\ UNCHANGED <<generated, client, csv>>

\* return { success, message }
Return ==
    /\ pc > Len(Program(call).stmts)
    /\ pc' = 0
    /\ result' = IF Program(call).success THEN "success" ELSE "failure"
    /\ ret' = ReturnValue(call, fetched)
    /\ out' = IF call.name \in Commands /\ Printed(call) # ""
              THEN Output("message", Printed(call), NoSummary, <<>>, <<>>)
              ELSE out
    /\ UNCHANGED <<call, log, prev, nops, error, fetched>>
    /\ UNCHANGED dbVars
    /\ UNCHANGED toolVars

\* userService
CallCreateUser ==
    \E u \in Names, p \in Passwords : Start(Call("createUser", u, NoName, NoName, <<>>, p))

CallUpdateUserPassword ==
    \E u \in Names, p \in Passwords :
        Start(Call("updateUserPassword", u, NoName, NoName, <<>>, p))

CallDeleteUser ==
    \E u \in Names : Start(Call("deleteUser", u, NoName, NoName, <<>>, ""))

\* roleService
CallCreateRole ==
    \E r \in Names : Start(Call("createRole", NoName, r, NoName, <<>>, ""))

CallDeleteRole ==
    \E r \in Names : Start(Call("deleteRole", NoName, r, NoName, <<>>, ""))

CallAssignUserToRole ==
    \E u \in Names, r \in Names :
        Start(Call("assignUserToRole", u, r, NoName, <<>>, ""))

CallRemoveUserFromRole ==
    \E u \in Names, r \in Names :
        Start(Call("removeUserFromRole", u, r, NoName, <<>>, ""))

\* permissionService
CallGrantRead ==
    \E r \in GrantRoles, s \in Schemas :
        Start(Call("grantReadPermissions", NoName, r, db1, <<s>>, ""))

CallGrantWrite ==
    \E r \in GrantRoles, s \in Schemas :
        Start(Call("grantWritePermissions", NoName, r, db1, <<s>>, ""))

CallRevokeAll ==
    \E r \in GrantRoles, s \in Schemas :
        Start(Call("revokeAllPermissions", NoName, r, db1, <<s>>, ""))

CallGrantReadMulti ==
    \E r \in GrantRoles, ss \in SchemaLists :
        Start(Call("grantReadPermissionsMulti", NoName, r, db1, ss, ""))

CallGrantWriteMulti ==
    \E r \in GrantRoles, ss \in SchemaLists :
        Start(Call("grantWritePermissionsMulti", NoName, r, db1, ss, ""))

CallRevokeAllMulti ==
    \E r \in GrantRoles, ss \in SchemaLists :
        Start(Call("revokeAllPermissionsMulti", NoName, r, db1, ss, ""))

\* `${perm.table_schema}.${perm.table_name}`
TableKey(perm) == perm.table_schema \o <<".">> \o perm.table_name

\* `${p.table_schema}.${p.table_name}.${p.column_name}`
ColumnKey(p) == TableKey(p) \o <<".">> \o p.column_name

\* new Set(list).size
SetSize(list) == Cardinality({list[i] : i \in 1..Len(list)})

\* a summary whose statistics count the rows, not the distinct keys
displayQuickSummaryCountingRows(permissions) ==
    LET tp == permissions.tablePermissions
        cp == permissions.columnPermissions
        rd == permissions.roleDetails
    IN [hasRead |-> \E i \in 1..Len(tp) : tp[i].privilege_type = "SELECT",
        hasWrite |-> \E i \in 1..Len(tp) :
                        tp[i].privilege_type \in {"INSERT", "UPDATE", "DELETE"},
        hasAdmin |-> rd.rolsuper \/ rd.rolcreatedb \/ rd.rolcreaterole,
        totalTables |-> Len(tp),
        totalColumns |-> Len(cp)]

\* displayUtils.displayQuickSummary: the three flags and the two statistics
displayQuickSummary(permissions) ==
    LET tp == permissions.tablePermissions
        cp == permissions.columnPermissions
        rd == permissions.roleDetails
    IN [hasRead |-> \E i \in 1..Len(tp) : tp[i].privilege_type = "SELECT",
        hasWrite |-> \E i \in 1..Len(tp) :
                        tp[i].privilege_type \in {"INSERT", "UPDATE", "DELETE"},
        hasAdmin |-> rd.rolsuper \/ rd.rolcreatedb \/ rd.rolcreaterole,
        totalTables |-> SetSize([i \in 1..Len(tp) |-> TableKey(tp[i])]),
        totalColumns |-> SetSize([i \in 1..Len(cp) |-> ColumnKey(cp[i])])]

\* the privilege_type of the rows of a list at the positions of keep, in the
\* order of the list: what forEach pushes onto one array
Pushed(list, keep) ==
    LET at == SelectSeq([i \in 1..Len(list) |-> i], LAMBDA i : i \in keep)
    IN [k \in 1..Len(at) |-> list[at[k]].privilege_type]

\* displayUtils.displayTablePermissions: one line per table key, keys sorted,
\* with the privileges pushed for that key
displayTablePermissions(tablePerms) ==
    LET keys == OrderByName({TableKey(tablePerms[i]) :
                                i \in 1..Len(tablePerms)})
    IN [k \in 1..Len(keys) |->
           [table |-> keys[k],
            privileges |-> Pushed(tablePerms,
                                  {i \in 1..Len(tablePerms) :
                                      TableKey(tablePerms[i]) = keys[k]})]]

\* displayUtils.displayColumnPermissions: one sub-table per table key, keys
\* sorted, with one line per column, columns sorted
displayColumnPermissions(columnPerms) ==
    LET keys == OrderByName({TableKey(columnPerms[i]) :
                                i \in 1..Len(columnPerms)})
    IN [k \in 1..Len(keys) |->
           LET cols == OrderByName({columnPerms[i].column_name :
                                       i \in {j \in 1..Len(columnPerms) :
                                                 TableKey(columnPerms[j]) = keys[k]}})
           IN [table |-> keys[k],
               columns |->
                   [c \in 1..Len(cols) |->
                       [column |-> cols[c],
                        privileges |->
                            Pushed(columnPerms,
                                   {i \in 1..Len(columnPerms) :
                                       /\ TableKey(columnPerms[i]) = keys[k]
                                       /\ columnPerms[i].column_name = cols[c]})]]]]

\* displayUtils.displayRoleInformation, for the permissions object in hand
DisplayRoleInformation ==
    /\ pc = 0
    /\ ret.kind = "permissions"
    /\ out = NoOutput
    /\ out' = Output("role information", "",
                      displayQuickSummary(ret.permissions),
                      displayTablePermissions(ret.permissions.tablePermissions),
                      displayColumnPermissions(ret.permissions.columnPermissions))
    /\ UNCHANGED <<call, pc, log, result, prev, nops, error, fetched, ret>>
    /\ UNCHANGED dbVars
    /\ UNCHANGED toolVars

\* the catalog readers
CallListUsers ==
    \E b \in BOOLEAN : Start(CallWith("listUsers", NoName, NoName, NoName, <<>>, "", b))

CallListRoles ==
    \E b \in BOOLEAN : Start(CallWith("listRoles", NoName, NoName, NoName, <<>>, "", b))

CallListSchemas ==
    \E b \in BOOLEAN : Start(CallWith("listSchemas", NoName, NoName, NoName, <<>>, "", b))

CallListUserRoles ==
    \E u \in Names : Start(Call("listUserRoles", u, NoName, NoName, <<>>, ""))

CallListPermissions ==
    \E r \in Names : Start(Call("listPermissions", NoName, r, NoName, <<>>, ""))

\* role names as a caller may type them: as listed, or in another case
TypedRoles == {n_ab, n_pg_m, n_PG_m}

SingleSchemaOps == {"grantReadPermissions", "grantWritePermissions", "revokeAllPermissions"}

\* a single-schema grant or revoke
CallSingleSchema ==
    \E f \in SingleSchemaOps, r \in TypedRoles, s \in Schemas :
        Start(Call(f, NoName, r, db1, <<s>>, ""))

\* the schema lists the three selection modes give: one schema (s1), some
\* (s1 and s2), all; on a database without user schemas, all is the empty list
Selections ==
    {ss \in {<<s1>>, <<s1, s2>>} : \A i \in 1..Len(ss) : ss[i] \in namespaces}
    \cup {OrderByName(SchemasWhere(NoSystemSchemas))}

\* the commands that ask for a confirmation; the user or role is picked from
\* the list the command has just read
CmdDeleteUser ==
    \E u \in RolesWhere(TRUE, NoSystemRoles), confirm \in BOOLEAN :
        Start(CallWith("delete-user", u, NoName, NoName, <<>>, "", confirm))

CmdDeleteRole ==
    \E r \in RolesWhere(FALSE, NoSystemRoles), confirm \in BOOLEAN :
        Start(CallWith("delete-role", NoName, r, NoName, <<>>, "", confirm))

CmdRevokePermissions ==
    \E r \in RolesWhere(FALSE, NoSystemRoles), ss \in Selections, confirm \in BOOLEAN :
        Start(CallWith("revoke-permissions", NoName, r, db1, ss, "", confirm))

\* the commands that grant; the role is picked from the list the command has
\* just read, the schemas from the list of schemas
CmdGrantRead ==
    \E r \in RolesWhere(FALSE, NoSystemRoles), ss \in Selections :
        Start(Call("grant-read-permissions", NoName, r, db1, ss, ""))

CmdGrantWrite ==
    \E r \in RolesWhere(FALSE, NoSystemRoles), ss \in Selections :
        Start(Call("grant-write-permissions", NoName, r, db1, ss, ""))

\* the list-permissions command, with or without --system-roles; the role is
\* picked from the list the command has just read
CmdListPermissions ==
    \E systemRoles \in BOOLEAN :
        LET rolenames == RolesWhere(FALSE, IF systemRoles THEN {} ELSE NoSystemRoles)
        IN \E r \in (IF rolenames = {} THEN {NoName} ELSE rolenames) :
               Start(CallWith("list-permissions", NoName, r, NoName, <<>>, "", systemRoles))

\* the name of a user that does not exist yet
n_ef == <<"e", "f">>

\* the commands that can save the credentials
SaveCommands == {"create-user", "update-user-password"}

\* the commands that set a password; they end when the prompt about the file,
\* if it was shown, has been answered
CmdCreateUser ==
    /\ csv.status # "offered"
    /\ \E u \in {n_ef, n_ab, n_pg_m}, p \in Passwords :
          Start(Call("create-user", u, NoName, NoName, <<>>, p))

CmdUpdateUserPassword ==
    /\ csv.status # "offered"
    /\ \E u \in RolesWhere(TRUE, NoSystemRoles), p \in Passwords :
          Start(Call("update-user-password", u, NoName, NoName, <<>>, p))

\* a command that asks about the file whatever the service returned
OfferSaveAlways ==
    /\ call.name \in SaveCommands
    /\ pc = 0
    /\ result \in {"success", "failure"}
    /\ csv.op # nops
    /\ csv' = [status |-> "offered", op |-> nops]
    /\ UNCHANGED <<call, pc, log, result, prev, nops, error, fetched, ret, out>>
    /\ UNCHANGED <<generated, inflight, client>>
    /\ UNCHANGED dbVars

\* if (result.success): the prompt 'Save credentials to CSV file?'
OfferSave ==
    /\ call.name \in SaveCommands
    /\ pc = 0
    /\ result = "success"
    /\ csv.op # nops
    /\ csv' = [status |-> "offered", op |-> nops]
    /\ UNCHANGED <<call, pc, log, result, prev, nops, error, fetched, ret, out>>
    /\ UNCHANGED <<generated, inflight, client>>
    /\ UNCHANGED dbVars

\* the answer is yes: saveUserToCSV writes the file, or fails and says so
SaveUserToCSV ==
    /\ csv.status = "offered"
    /\ \E written \in BOOLEAN :
          csv' = [csv EXCEPT !.status = IF written THEN "written" ELSE "not written"]
    /\ UNCHANGED <<call, pc, log, result, prev, nops, error, fetched, ret, out>>
    /\ UNCHANGED <<generated, inflight, client>>
    /\ UNCHANGED dbVars

\* the answer is no
DeclineSave ==
    /\ csv.status = "offered"
    /\ csv' = [csv EXCEPT !.status = "declined"]
    /\ UNCHANGED <<call, pc, log, result, prev, nops, error, fetched, ret, out>>
    /\ UNCHANGED <<generated, inflight, client>>
    /\ UNCHANGED dbVars

\* a command is run: its action starts with `if (await db.testConnection())`
Invoke(c) ==
    /\ pc = 0
    /\ client \notin {"connecting", "acquired"}
    /\ nops < MaxOps
    /\ call' = c
    /\ pc' = 0
    /\ log' = <<>>
    /\ result' = "pending"
    /\ prev' = NoCall
    /\ nops' = nops + 1
    /\ error' = NoError
    /\ fetched' = <<>>
    /\ ret' = NoValue
    /\ out' = NoOutput
    /\ client' = "connecting"
    /\ UNCHANGED <<generated, inflight, csv>>
    /\ UNCHANGED dbVars

\* pool.connect() resolves with a client
ConnectOk ==
    /\ client = "connecting"
    /\ client' = "acquired"
    /\ UNCHANGED <<call, pc, log, result, prev, nops, error, fetched, ret, out>>
    /\ UNCHANGED <<generated, inflight, csv>>
    /\ UNCHANGED dbVars

\* pool.connect() rejects: catch (err) { console.error(...); return false; }
\* and the action, its `if` not taken, ends
ConnectFail ==
    /\ client = "connecting"
    /\ client' = "failed"
    /\ result' = "not connected"
    /\ UNCHANGED <<call, pc, log, prev, nops, error, fetched, ret, out>>
    /\ UNCHANGED <<generated, inflight, csv>>
    /\ UNCHANGED dbVars

\* a testConnection that returns true with the client still checked out
ReleaseSkipped ==
    /\ client = "acquired"
    /\ pc' = 1
    /\ UNCHANGED <<call, log, result, prev, nops, error, fetched, ret, out>>
    /\ UNCHANGED <<generated, inflight, csv, client>>
    /\ UNCHANGED dbVars

\* client.release(); return true; and the action goes on to its first statement
Release ==
    /\ client = "acquired"
    /\ client' = "released"
    /\ pc' = 1
    /\ UNCHANGED <<call, log, result, prev, nops, error, fetched, ret, out>>
    /\ UNCHANGED <<generated, inflight, csv>>
    /\ UNCHANGED dbVars

\* the commands as the user may run them, with the answers to their prompts
CommandCalls ==
    {CallWith("delete-role", NoName, r, NoName, <<>>, "", confirm) :
        r \in RolesWhere(FALSE, NoSystemRoles), confirm \in BOOLEAN}
    \cup {Call("grant-read-permissions", NoName, r, db1, ss, "") :
             r \in RolesWhere(FALSE, NoSystemRoles), ss \in Selections}
    \cup {CallWith("list-permissions", NoName, r, NoName, <<>>, "", TRUE) :
             r \in RolesWhere(FALSE, {})}

InvokeCommand ==
    \E c \in CommandCalls : Invoke(c)

\* the privileges a new object starts with: the default privileges recorded
\* for its creator (here the session user) for its schema and kind
DefaultsFor(o) ==
    {<<o.id, t[3], t[4]>> : t \in {x \in defAcl : x[1] = o.schema /\ x[2] = o.kind}}

\* other sessions create the later tables, one as the session user and one as
\* another owner, between two calls; the default privileges recorded for the
\* session user apply to what the session user creates, and to nothing else
CreateObjects ==
    /\ pc = 0
    /\ objects = InitObjects
    /\ objects' = objects \cup LaterObjects
    /\ relAcl' = relAcl \cup
                 UNION {DefaultsFor(o) : o \in {x \in LaterObjects : x.creator = SessionUser}}
    /\ UNCHANGED <<pgRoles, members, namespaces, dbAcl, nsAcl, defAcl>>
    /\ UNCHANGED <<call, pc, log, result, prev, nops>>
    /\ UNCHANGED <<error, fetched, ret, out>>
    /\ UNCHANGED toolVars

\* no credentials file was offered or written
NoFile == [status |-> "none", op |-> 0]

\* no password was generated
NoPassword ==
    [length |-> 0, includeSpecial |-> FALSE, includeNumbers |-> FALSE,
     includeUppercase |-> FALSE, password |-> <<>>, done |-> FALSE]

\* the tool has just been started
ToolInit ==
    /\ generated = NoPassword
    /\ inflight = 0
    /\ client = "none"
    /\ csv = NoFile

Init ==
    /\ pgRoles = (n_ab :> [login |-> FALSE, password |-> ""])
                 @@ (n_pg_m :> [login |-> FALSE, password |-> ""])
                 @@ (n_rds_a :> [login |-> FALSE, password |-> ""])
    /\ members = {}
    /\ objects = InitObjects
    /\ namespaces = Namespaces
    /\ dbAcl = {}
    /\ nsAcl = {}
    /\ relAcl = {}
    /\ defAcl = {}
    /\ call = NoCall
    /\ pc = 0
    /\ log = <<>>
    /\ result = "none"
    /\ prev = NoCall
    /\ nops = 0
    /\ error = NoError
    /\ fetched = <<>>
    /\ ret = NoValue
    /\ out = NoOutput
    /\ ToolInit

\* a catalog with the roles of LoginRoles able to log in; the predefined pg_
\* role never is
Catalog(LoginRoles) ==
    [n \in {n_ab, n_cd, n_PG_m, n_pg_m, n_rds_a} |->
        [login |-> n \in LoginRoles, password |-> ""]]

\* sequences of at most n elements of S
SeqUpTo(S, n) == UNION {[1..k -> S] : k \in 0..n}

\* rows information_schema.table_privileges can hold for a grantee; the same
\* (table, privilege) comes once per grantor
TableRows ==
    {[table_schema |-> x[1], table_name |-> x[2], privilege_type |-> p] :
        x \in {<<s1, RelName(1)>>, <<s1, RelName(3)>>, <<s2, RelName(1)>>},
        p \in {"SELECT", "INSERT", "UPDATE", "DELETE", "TRUNCATE"}}

\* rows information_schema.column_privileges can hold for a grantee
ColumnRows ==
    {[table_schema |-> s1, table_name |-> RelName(1), column_name |-> c,
      privilege_type |-> p] :
        c \in {n_c1, <<"c", "2">>}, p \in {"SELECT", "UPDATE"}}

\* rows[0] || {} of the role attributes query
RoleDetailRows ==
    {EmptyObject}
    \cup {[rolname |-> n_ab, rolsuper |-> a[1], rolcreaterole |-> a[2],
           rolcreatedb |-> a[3], rolcanlogin |-> FALSE] :
             a \in {<<FALSE, FALSE, FALSE>>, <<TRUE, FALSE, FALSE>>,
                     <<FALSE, TRUE, FALSE>>, <<FALSE, FALSE, TRUE>>}}

\* a permissions object is in hand, about to be displayed
InitReport ==
    /\ pgRoles = (n_ab :> [login |-> FALSE, password |-> ""])
    /\ members = {}
    /\ objects = InitObjects
    /\ namespaces = Namespaces
    /\ dbAcl = {}
    /\ nsAcl = {}
    /\ relAcl = {}
    /\ defAcl = {}
    /\ call = NoCall
    /\ pc = 0
    /\ log = <<>>
    /\ result = "none"
    /\ prev = NoCall
    /\ nops = 0
    /\ error = NoError
    /\ fetched = <<>>
    /\ ret \in {Value("permissions", <<>>, Permissions(rd, tp, <<>>, cp, <<>>, <<>>)) :
                    rd \in RoleDetailRows,
                    tp \in SeqUpTo(TableRows, MaxRows),
                    cp \in SeqUpTo(ColumnRows, MaxColumnRows)}
    /\ out = NoOutput
    /\ ToolInit

\* pg_namespace of a database without user schemas
SystemNamespaces == {n_pg_catalog, n_information_schema}

\* a database with or without user schemas
InitSchemas ==
    /\ pgRoles = (n_ab :> [login |-> FALSE, password |-> ""])
                 @@ (n_pg_m :> [login |-> FALSE, password |-> ""])
                 @@ (n_rds_a :> [login |-> FALSE, password |-> ""])
    /\ members = {}
    /\ objects \in {InitObjects, {}}
    /\ namespaces = IF objects = {} THEN SystemNamespaces ELSE Namespaces
    /\ dbAcl = {}
    /\ nsAcl = {}
    /\ relAcl = {}
    /\ defAcl = {}
    /\ call = NoCall
    /\ pc = 0
    /\ log = <<>>
    /\ result = "none"
    /\ prev = NoCall
    /\ nops = 0
    /\ error = NoError
    /\ fetched = <<>>
    /\ ret = NoValue
    /\ out = NoOutput
    /\ ToolInit

\* a database with tables and sequences in two schemas
InitTwoSchemas ==
    /\ pgRoles = (n_ab :> [login |-> FALSE, password |-> ""])
                 @@ (n_pg_m :> [login |-> FALSE, password |-> ""])
                 @@ (n_rds_a :> [login |-> FALSE, password |-> ""])
    /\ members = {}
    /\ objects = InitObjects \cup OtherSchemaObjects
    /\ namespaces = Namespaces
    /\ dbAcl = {}
    /\ nsAcl = {}
    /\ relAcl = {}
    /\ defAcl = {}
    /\ call = NoCall
    /\ pc = 0
    /\ log = <<>>
    /\ result = "none"
    /\ prev = NoCall
    /\ nops = 0
    /\ error = NoError
    /\ fetched = <<>>
    /\ ret = NoValue
    /\ out = NoOutput
    /\ ToolInit

\* the database as the tool may find it: roles created before, by this tool or
\* by others (quoted names included), a membership, and privileges of role ab
InitCatalog ==
    /\ pgRoles \in {Catalog(L) : L \in SUBSET {n_ab, n_cd, n_PG_m, n_rds_a}}
    /\ members \in {{}, {<<n_cd, n_ab>>}}
    /\ objects = InitObjects
    /\ namespaces = Namespaces
    /\ \E granted \in BOOLEAN :
          /\ dbAcl = IF granted THEN {<<db1, n_ab, "CONNECT">>} ELSE {}
          /\ nsAcl = IF granted THEN {<<s1, n_ab, "USAGE">>} ELSE {}
          /\ relAcl = IF granted
                      THEN {<<1, n_ab, "SELECT">>, <<1, n_ab, "INSERT">>, <<2, n_ab, "USAGE">>}
                      ELSE {}
    /\ defAcl = {}
    /\ call = NoCall
    /\ pc = 0
    /\ log = <<>>
    /\ result = "none"
    /\ prev = NoCall
    /\ nops = 0
    /\ error = NoError
    /\ fetched = <<>>
    /\ ret = NoValue
    /\ out = NoOutput
    /\ ToolInit

\* the character classes of generateSecurePassword, two characters of each
lowercase == <<"a", "b">>

uppercase == <<"A", "B">>

numbers == <<"0", "1">>

special == <<"!", "_">>

\* the values of a string that is built by n random picks of a character of chars
RECURSIVE Picks(_, _)
Picks(chars, n) ==
    IF n <= 0 THEN {<<>>}
    ELSE {Append(p, chars[k]) : p \in Picks(chars, n - 1), k \in 1..Len(chars)}

\* [a[i], a[j]] = [a[j], a[i]]
Swap(a, i, j) == [a EXCEPT ![i] = a[j], ![j] = a[i]]

\* the arrays the shuffle can leave: for i from the last index down to the
\* second, a[i] is swapped with a[j] for a random j up to i
RECURSIVE FisherYates(_, _)
FisherYates(a, i) ==
    IF i < 2 THEN {a}
    ELSE UNION {FisherYates(Swap(a, i, j), i - 1) : j \in 1..i}

\* a generator that draws every character from the whole character set
generateWithoutGuarantee(length, includeSpecial, includeNumbers, includeUppercase) ==
    LET chars == lowercase
                 \o (IF includeUppercase THEN uppercase ELSE <<>>)
                 \o (IF includeNumbers THEN numbers ELSE <<>>)
                 \o (IF includeSpecial THEN special ELSE <<>>)
    IN UNION {FisherYates(p, Len(p)) : p \in Picks(chars, length)}

\* displayUtils.generateSecurePassword: the passwords it can return
generateSecurePassword(length, includeSpecial, includeNumbers, includeUppercase) ==
    LET chars == lowercase
                 \o (IF includeUppercase THEN uppercase ELSE <<>>)
                 \o (IF includeNumbers THEN numbers ELSE <<>>)
                 \o (IF includeSpecial THEN special ELSE <<>>)
        ensured == {u \o n \o x :
                       u \in (IF includeUppercase THEN Picks(uppercase, 1) ELSE {<<>>}),
                       n \in (IF includeNumbers THEN Picks(numbers, 1) ELSE {<<>>}),
                       x \in (IF includeSpecial THEN Picks(special, 1) ELSE {<<>>})}
        filled == UNION {{e \o r : r \in Picks(chars, length - Len(e))} : e \in ensured}
    IN UNION {FisherYates(p, Len(p)) : p \in filled}

\* a call of generateSecurePassword
GenerateSecurePassword ==
    /\ ~generated.done
    /\ \E length \in 0..MaxLength, includeSpecial \in BOOLEAN,
          includeNumbers \in BOOLEAN, includeUppercase \in BOOLEAN :
          \E password \in generateSecurePassword(length, includeSpecial,
                                                 includeNumbers, includeUppercase) :
              generated' = [length |-> length, includeSpecial |-> includeSpecial,
                            includeNumbers |-> includeNumbers,
                            includeUppercase |-> includeUppercase,
                            password |-> password, done |-> TRUE]
    /\ UNCHANGED <<call, pc, log, result, prev, nops, error, fetched, ret, out>>
    /\ UNCHANGED dbVars
    /\ UNCHANGED <<inflight, client, csv>>

\* users, roles and memberships
NextRoles ==
    \/ CallCreateUser
    \/ CallUpdateUserPassword
    \/ CallDeleteUser
    \/ CallCreateRole
    \/ CallDeleteRole
    \/ CallAssignUserToRole
    \/ CallRemoveUserFromRole
    \/ QueryOk
    \/ QueryFail
    \/ Return

\* grants and revocations
NextGrants ==
    \/ CallGrantRead
    \/ CallGrantWrite
    \/ CallRevokeAll
    \/ CallGrantReadMulti
    \/ CallGrantWriteMulti
    \/ CallRevokeAllMulti
    \/ QueryOk
    \/ QueryFail
    \/ Return
    \/ CreateObjects

\* catalog reads
NextCatalog ==
    \/ CallListUsers
    \/ CallListRoles
    \/ CallListSchemas
    \/ CallListUserRoles
    \/ CallListPermissions
    \/ QueryOk
    \/ QueryFail
    \/ Return
    \/ DisplayRoleInformation

\* the display of a permissions object
NextReport == DisplayRoleInformation

\* the commands that destroy something
NextCommands ==
    \/ CmdDeleteUser
    \/ CmdDeleteRole
    \/ CmdRevokePermissions
    \/ QueryOk
    \/ QueryFail
    \/ Return

SpecRoles == Init /\ [][NextRoles]_vars

SpecCatalog == InitCatalog /\ [][NextCatalog]_vars

SpecReport == InitReport /\ [][NextReport]_vars

SpecCommands == InitCatalog /\ [][NextCommands]_vars

SpecGrants == Init /\ [][NextGrants]_vars

\* the commands that ask for schemas
NextSchemaCommands ==
    \/ CmdGrantRead
    \/ CmdGrantWrite
    \/ CmdRevokePermissions
    \/ QueryOk
    \/ QueryFail
    \/ Return

SpecSchemaCommands == InitSchemas /\ [][NextSchemaCommands]_vars

\* the commands, from the connection test on
NextConnection ==
    \/ InvokeCommand
    \/ ConnectOk
    \/ ConnectFail
    \/ Release
    \/ QueryOk
    \/ QueryFail
    \/ Return

SpecConnection == InitSchemas /\ [][NextConnection]_vars

\* single-schema grants and revokes on two schemas
NextTwoSchemas ==
    \/ CallSingleSchema
    \/ QueryOk
    \/ QueryFail
    \/ Return

SpecTwoSchemas == InitTwoSchemas /\ [][NextTwoSchemas]_vars

\* the commands that set a password
NextCredentials ==
    \/ CmdCreateUser
    \/ CmdUpdateUserPassword
    \/ QueryOk
    \/ QueryFail
    \/ Return
    \/ OfferSave
    \/ SaveUserToCSV
    \/ DeclineSave

SpecCredentials == InitCatalog /\ [][NextCredentials]_vars

\* the command that reports on a role
NextListing ==
    \/ CmdListPermissions
    \/ QueryOk
    \/ QueryFail
    \/ Return
    \/ DisplayRoleInformation

SpecListing == InitCatalog /\ [][NextListing]_vars

\* a multi-schema write grant and a report, statement by statement on the wire
NextSequence ==
    \/ CallGrantWriteMulti
    \/ CallListPermissions
    \/ SendQuery
    \/ ReceiveOk
    \/ ReceiveFail
    \/ Return

SpecSequence == Init /\ [][NextSequence]_vars

\* the password generator
NextPassword == GenerateSecurePassword

SpecPassword == Init /\ [][NextPassword]_vars

Next == NextRoles \/ NextGrants \/ NextCatalog \/ NextCommands

Spec == Init /\ [][Next]_vars

-----------------------------------------------------------------------------
(* Properties. *)

RoleOps == {"createUser", "updateUserPassword", "deleteUser", "createRole", "deleteRole"}

UserOps == {"createUser", "updateUserPassword", "deleteUser"}

\* the name a create, update or delete call is made for
Target(c) == IF c.name \in UserOps THEN c.username ELSE c.rolename

HasReservedPrefix(name) == startsWith(name, pg_) \/ startsWith(name, rds_)

\* C1: a create, update-password or delete call whose name starts with 'pg_'
\* or 'rds_' sends no statement and ends with a failure result.
C1_ReservedNameRejected ==
    (call.name \in RoleOps /\ HasReservedPrefix(Target(call)))
        => /\ log = <<>>
           /\ result \in {"pending", "failure"}
           /\ (pc = 0 => result = "failure")

C1_Witness ==
    /\ call.name = "deleteUser"
    /\ call.username = n_rds_a
    /\ pc = 0
    /\ result = "failure"
    /\ log = <<>>

\* C2 (as claimed): every mutating call given a role or identifier that starts
\* with 'pg_' or 'rds_' sends no statement and ends with a failure result.
C2_EveryMutationRejectsReserved ==
    (call.name # "" /\ (HasReservedPrefix(call.rolename) \/ HasReservedPrefix(call.username)))
        => /\ log = <<>>
           /\ result \in {"pending", "failure"}

\* the statements of the call the database executed (a rejected one is the last sent)
ExecutedSoFar == IF result = "raised" THEN SubSeq(log, 1, Len(log) - 1) ELSE log

\* C3 (as claimed): no CREATE ROLE, ALTER ROLE or DROP ROLE statement is issued
\* whose target, as the database resolves it, is a system-reserved role.  Only
\* statements the database executed are counted here, so that a violation is a
\* system role that was in fact created, altered or dropped.
C3_NoSystemRoleTargeted ==
    \A i \in 1..Len(ExecutedSoFar) :
        ExecutedSoFar[i].verb \in {"CREATE ROLE", "ALTER ROLE", "DROP ROLE"}
            => ~IsSystemRole(Role(ExecutedSoFar[i]))

\* the schema argument of a single-schema call
SchemaOf(c) == c.schemas[1]

IsPrefix(s, u) == Len(s) <= Len(u) /\ s = SubSeq(u, 1, Len(s))

\* the role of the call holds SELECT on every table now in the schema
SelectOnEveryTable(c) ==
    \A o \in objects :
        (o.kind = "TABLE" /\ o.schema = Fold(SchemaOf(c)))
            => <<o.id, Fold(c.rolename), "SELECT">> \in relAcl

\* the four statements of a read grant, as the claim lists them
ReadStatements(c) ==
    <<Stmt("GRANT", {"CONNECT"}, "DATABASE", c.database, c.rolename, ""),
      Stmt("GRANT", {"USAGE"}, "SCHEMA", SchemaOf(c), c.rolename, ""),
      Stmt("GRANT", {"SELECT"}, "ALL TABLES", SchemaOf(c), c.rolename, ""),
      Stmt("DEFAULT GRANT", {"SELECT"}, "TABLES", SchemaOf(c), c.rolename, "")>>

\* C4 (as claimed): a successful grantReadPermissions has sent CONNECT, USAGE,
\* SELECT on all tables and the default SELECT rule, in this order, and until
\* the next call the role holds SELECT on every table of the schema, those
\* created after the grant included.
C4_ReadCoversCurrentAndFutureTables ==
    (call.name = "grantReadPermissions" /\ result = "success")
        => /\ log = ReadStatements(call)
           /\ SelectOnEveryTable(call)

\* C5 (as claimed): the statements of grantWritePermissions are those of
\* grantReadPermissions for the same arguments, followed by INSERT/UPDATE/DELETE
\* on all tables, INSERT/UPDATE/DELETE as the default for future tables, USAGE
\* on all sequences and USAGE as the default for future sequences.
C5_WriteIsReadPlusWriteOnly ==
    (call.name = "grantWritePermissions" /\ result = "success")
        => log = ReadStatements(call)
                 \o <<Stmt("GRANT", {"INSERT", "UPDATE", "DELETE"}, "ALL TABLES",
                           SchemaOf(call), call.rolename, ""),
                      Stmt("DEFAULT GRANT", {"INSERT", "UPDATE", "DELETE"}, "TABLES",
                           SchemaOf(call), call.rolename, ""),
                      Stmt("GRANT", {"USAGE"}, "ALL SEQUENCES",
                           SchemaOf(call), call.rolename, ""),
                      Stmt("DEFAULT GRANT", {"USAGE"}, "SEQUENCES",
                           SchemaOf(call), call.rolename, "")>>

\* the statements of a write grant, with the default rule as the code sends it
WriteStatements(c) ==
    ReadStatements(c)
    \o <<Stmt("GRANT", {"INSERT", "UPDATE", "DELETE"}, "ALL TABLES",
              SchemaOf(c), c.rolename, ""),
         Stmt("DEFAULT GRANT", {"SELECT", "INSERT", "UPDATE", "DELETE"}, "TABLES",
              SchemaOf(c), c.rolename, ""),
         Stmt("GRANT", {"USAGE"}, "ALL SEQUENCES", SchemaOf(c), c.rolename, ""),
         Stmt("DEFAULT GRANT", {"USAGE"}, "SEQUENCES", SchemaOf(c), c.rolename, "")>>

\* C5 (amended): the statements of grantWritePermissions are those of
\* grantReadPermissions for the same arguments, in the same order, followed by
\* INSERT/UPDATE/DELETE on all tables, SELECT/INSERT/UPDATE/DELETE as the
\* default for future tables, USAGE on all sequences and USAGE as the default
\* for future sequences; a run cut short by a failure has sent a prefix of them.
C5_WriteIsReadPlusWrite ==
    call.name = "grantWritePermissions"
        => /\ IsPrefix(log, WriteStatements(call))
           /\ (Len(log) >= 4 =>
                 SubSeq(log, 1, 4)
                   = grantReadPermissions(call.rolename, call.database, SchemaOf(call)).stmts)
           /\ (result = "success" => log = WriteStatements(call))

C5_Witness ==
    /\ call.name = "grantWritePermissions"
    /\ result = "success"
    /\ Len(log) = 8
    /\ log[6].privs = {"SELECT", "INSERT", "UPDATE", "DELETE"}

\* C6: a successful revokeAllPermissions has sent the revocations on all tables,
\* on all sequences, on the schema, on the database and of the default rules
\* for tables and for sequences, whatever the role held before.
C6_RevokeSendsFullSet ==
    (call.name = "revokeAllPermissions" /\ result = "success")
        => log = <<Stmt("REVOKE", {"ALL"}, "ALL TABLES", SchemaOf(call), call.rolename, ""),
                   Stmt("REVOKE", {"ALL"}, "ALL SEQUENCES", SchemaOf(call), call.rolename, ""),
                   Stmt("REVOKE", {"ALL"}, "SCHEMA", SchemaOf(call), call.rolename, ""),
                   Stmt("REVOKE", {"ALL"}, "DATABASE", call.database, call.rolename, ""),
                   Stmt("DEFAULT REVOKE", {"ALL"}, "TABLES", SchemaOf(call), call.rolename, ""),
                   Stmt("DEFAULT REVOKE", {"ALL"}, "SEQUENCES", SchemaOf(call), call.rolename, "")>>

\* the revocation of a role that held nothing: the first call of the run
C6_Witness ==
    /\ call.name = "revokeAllPermissions"
    /\ result = "success"
    /\ nops = 1
    /\ Len(log) = 6

\* a successful grantWritePermissions(r, d, s) directly followed by a
\* successful revokeAllPermissions(r, d, s)
RoundTrip ==
    /\ prev # NoCall
    /\ call.name = "revokeAllPermissions"
    /\ result = "success"
    /\ call.rolename = prev.rolename
    /\ call.database = prev.database
    /\ call.schemas = prev.schemas

\* C7: after a successful grantWritePermissions(r, d, s) directly followed by a
\* successful revokeAllPermissions(r, d, s), the report of r lists no table and
\* no column privilege in schema s, no privilege on schema s and none on d; no
\* sequence privilege and no default rule of r is left in s either.
C7_GrantThenRevokeLeavesNothing ==
    RoundTrip
        => /\ {x \in tablePermissions(call.rolename) :
                  x.table_schema = SchemaOf(call)} = {}
           /\ {x \in columnPermissions(call.rolename) :
                  x.table_schema = SchemaOf(call)} = {}
           /\ {x \in schemaPermissions(call.rolename) :
                  x.schema_name = SchemaOf(call)} = {}
           /\ {x \in databasePermissions(call.rolename) :
                  x.database_name = call.database} = {}
           /\ {x \in defAcl : x[1] = SchemaOf(call) /\ x[3] = call.rolename} = {}
           /\ {x \in relAcl : x[1] \in ObjectsIn("SEQUENCE", SchemaOf(call))
                              /\ x[2] = call.rolename} = {}

\* the round trip is over and tables were created after it
C7_Witness ==
    /\ RoundTrip
    /\ Len(log) = 6
    /\ objects = InitObjects \cup LaterObjects

MultiOps ==
    {"grantReadPermissionsMulti", "grantWritePermissionsMulti", "revokeAllPermissionsMulti"}

\* the single-schema function that matches a multi-schema call, called on s
SingleOf(c, s) ==
    CASE c.name = "grantReadPermissionsMulti" ->
            grantReadPermissions(c.rolename, c.database, s)
      [] c.name = "grantWritePermissionsMulti" ->
            grantWritePermissions(c.rolename, c.database, s)
      [] c.name = "revokeAllPermissionsMulti" ->
            revokeAllPermissions(c.rolename, c.database, s)

\* the schema-level statements of a sequence that name schema s, in order
ForSchema(stmts, s) ==
    SelectSeq(stmts, LAMBDA st : st.scope # "DATABASE" /\ st.obj = s)

ListedSchemas(c) == {c.schemas[i] : i \in 1..Len(c.schemas)}

\* C8: a multi-schema call sends, for each listed schema, the schema-level
\* statements of the matching single-schema function called on that schema, in
\* the same order, and nothing for any other schema; the read and write
\* variants send CONNECT exactly once, as their first statement.
C8_MultiMatchesSingle ==
    call.name \in MultiOps
        => /\ \A s \in ListedSchemas(call) :
                /\ IsPrefix(ForSchema(log, s), ForSchema(SingleOf(call, s).stmts, s))
                /\ (result = "success" =>
                      ForSchema(log, s) = ForSchema(SingleOf(call, s).stmts, s))
           /\ \A i \in 1..Len(log) :
                log[i].scope = "DATABASE" \/ log[i].obj \in ListedSchemas(call)
           /\ (call.name # "revokeAllPermissionsMulti" =>
                 /\ Cardinality({i \in 1..Len(log) : log[i].scope = "DATABASE"}) <= 1
                 /\ (Len(log) >= 1 =>
                       log[1] = Stmt("GRANT", {"CONNECT"}, "DATABASE",
                                     call.database, call.rolename, ""))
                 /\ (result = "success" =>
                       Cardinality({i \in 1..Len(log) : log[i].scope = "DATABASE"}) = 1))

C8_Witness ==
    /\ call.name = "grantWritePermissionsMulti"
    /\ call.schemas = <<s1, s2>>
    /\ result = "success"
    /\ Len(log) = 15

\* the statements of the call that were executed before one failed
Executed == SubSeq(log, 1, Len(log) - 1)

\* the statement that failed
Failing == log[Len(log)]

\* a statement of a multi-schema call failed, and it was a statement for a schema
FailedOnSchema ==
    /\ call.name \in MultiOps
    /\ result = "raised"
    /\ Failing.scope # "DATABASE"

\* the position in the list of the schema whose statement failed
FailedIndex == CHOOSE i \in 1..Len(call.schemas) : call.schemas[i] = Failing.obj

\* C9 (as claimed): when a statement for schema sN of a multi-schema call fails,
\* every schema before sN has received all the statements the call has for it
\* and sN and every schema after it have received none.
C9_FailureSplitsAtSchema ==
    FailedOnSchema
        => \A i \in 1..Len(call.schemas) :
             /\ (i < FailedIndex =>
                   ForSchema(Executed, call.schemas[i])
                     = ForSchema(Program(call).stmts, call.schemas[i]))
             /\ (i >= FailedIndex => ForSchema(Executed, call.schemas[i]) = <<>>)

\* a statement of the second loop of grantWritePermissionsMulti
InWriteLoop(st) ==
    /\ call.name = "grantWritePermissionsMulti"
    /\ (st.privs \cap {"INSERT", "UPDATE", "DELETE"} # {}
        \/ st.scope \in {"ALL SEQUENCES", "SEQUENCES"})

\* the statements for schema s that belong to the loop in which the failure happened
LoopFor(stmts, s) ==
    SelectSeq(stmts, LAMBDA st : /\ st.scope # "DATABASE"
                                 /\ st.obj = s
                                 /\ InWriteLoop(st) = InWriteLoop(Failing))

\* the statements for schema s of the first loop
FirstLoopFor(stmts, s) ==
    SelectSeq(stmts, LAMBDA st : /\ st.scope # "DATABASE"
                                 /\ st.obj = s
                                 /\ ~InWriteLoop(st))

\* C9 (amended): when a statement for schema sN of a multi-schema call fails,
\* every schema before sN has received all statements of the loop that failed,
\* no schema after sN has received any statement of that loop, and sN itself
\* has received the statements of that loop that precede the failing one; a
\* failure in the write loop of grantWritePermissionsMulti leaves the read
\* statements of every listed schema executed, a failure in its read loop
\* leaves no write statement executed.  What was executed stays in the database.
C9_FailureSplitsInsideLoop ==
    FailedOnSchema
        => /\ \A i \in 1..Len(call.schemas) :
                LET s == call.schemas[i]
                    whole == LoopFor(SingleOf(call, s).stmts, s)
                    got == LoopFor(Executed, s)
                IN /\ (i < FailedIndex => got = whole)
                   /\ (i = FailedIndex => IsPrefix(got, whole) /\ Len(got) < Len(whole))
                   /\ (i > FailedIndex => got = <<>>)
                   /\ (InWriteLoop(Failing) =>
                         FirstLoopFor(Executed, s) = FirstLoopFor(SingleOf(call, s).stmts, s))
                   /\ ((call.name = "grantWritePermissionsMulti" /\ ~InWriteLoop(Failing)) =>
                         \A k \in 1..Len(Executed) : ~InWriteLoop(Executed[k]))
                   /\ ((call.name # "revokeAllPermissionsMulti"
                        /\ (i < FailedIndex \/ InWriteLoop(Failing))) =>
                         <<s, Fold(call.rolename), "USAGE">> \in nsAcl)
                   /\ ((call.name = "revokeAllPermissionsMulti" /\ i < FailedIndex) =>
                         {x \in nsAcl : x[1] = s /\ x[2] = Fold(call.rolename)} = {})

\* the second write statement for s2 fails: s1 is complete, s2 is half written
C9_Witness ==
    /\ FailedOnSchema
    /\ call.name = "grantWritePermissionsMulti"
    /\ call.schemas = <<s1, s2>>
    /\ Len(log) = 13
    /\ Failing.obj = s2
    /\ <<s2, Fold(call.rolename), "USAGE">> \in nsAcl

GrantRevokeOps ==
    {"grantReadPermissions", "grantWritePermissions", "revokeAllPermissions"} \cup MultiOps

\* the effect of an executed statement is in place: executing it again changes nothing
Effective(st) ==
    /\ DbAclAfter(st) = dbAcl
    /\ NsAclAfter(st) = nsAcl
    /\ RelAclAfter(st) = relAcl
    /\ DefAclAfter(st) = defAcl

\* C10: when a statement of a grant or revoke call fails, the failing statement
\* is the last one the call sends, and the failure changes nothing in the
\* database: the effects of the statements executed before it are all in place.
C10_FailureHaltsWithoutRollback ==
    /\ []((call.name \in GrantRevokeOps /\ result = "raised")
            => /\ pc = 0
               /\ Len(log) >= 1
               /\ IsPrefix(log, Program(call).stmts))
    /\ [][(call.name \in GrantRevokeOps /\ result = "raised" /\ nops' = nops)
            => log' = log]_vars
    /\ [][(call.name \in GrantRevokeOps /\ result = "pending" /\ result' = "raised")
            => /\ UNCHANGED dbVars
               /\ \A i \in 1..Len(log) : Effective(log[i])]_vars

\* the sixth statement of a write grant failed: the five before it took effect
C10_Witness ==
    /\ call.name = "grantWritePermissions"
    /\ result = "raised"
    /\ Len(log) = 6
    /\ nops = 1
    /\ <<SchemaOf(call), Fold(call.rolename), "USAGE">> \in nsAcl
    /\ <<call.database, Fold(call.rolename), "CONNECT">> \in dbAcl

\* the names the specification gives to the SQL phases of a grant or a revocation
Phases ==
    {"grant-connect", "grant-usage", "grant-select", "grant-write", "grant-sequence",
     "revoke-tables", "revoke-sequences", "revoke-schema", "revoke-database",
     "revoke-defaults"}

\* C11 (as claimed): when a statement of a grant or revoke call fails, the error
\* thrown to the caller identifies the role, the schema or database of the
\* failing statement, and the phase that failed.
C11_ErrorNamesRoleObjectPhase ==
    (call.name \in GrantRevokeOps /\ result = "raised")
        => /\ {call.rolename, Fold(call.rolename)} \cap error.identifiers # {}
           /\ {Failing.obj, Fold(Failing.obj)} \cap error.identifiers # {}
           /\ error.labels \cap Phases # {}

\* role r holds INSERT, UPDATE or DELETE on a table of schema s, or by the
\* default rule for the future tables of s
HoldsWrite(r, s) ==
    \/ \E x \in relAcl : x[1] \in ObjectsIn("TABLE", s) /\ x[2] = r /\ x[3] \in WritePrivs
    \/ \E x \in defAcl : x[1] = s /\ x[2] = "TABLE" /\ x[3] = r /\ x[4] \in WritePrivs

\* wherever r holds a write privilege in s it holds SELECT too
SelectWhereWrite(r, s) ==
    /\ \A x \in relAcl :
          (x[1] \in ObjectsIn("TABLE", s) /\ x[2] = r /\ x[3] \in WritePrivs)
              => <<x[1], r, "SELECT">> \in relAcl
    /\ \A x \in defAcl :
          (x[1] = s /\ x[2] = "TABLE" /\ x[3] = r /\ x[4] \in WritePrivs)
              => <<s, "TABLE", r, "SELECT">> \in defAcl

\* every call made so far returned success (one call, or a successful
\* grantWritePermissions followed by this one) and was made for some schema
AllSucceeded ==
    /\ pc = 0
    /\ result = "success"
    /\ (nops = 1 \/ prev # NoCall)
    /\ call.schemas # <<>>

\* C12 (as claimed): a role that holds INSERT, UPDATE or DELETE on the tables of
\* a schema, on current tables or by default rule, also holds SELECT on them,
\* USAGE on the schema and CONNECT on the database.  The claim is about every
\* reachable state; it is stated here for the states in which every call made
\* has returned success, where no failure and no half-run call is involved.
C12_WriteImpliesRead ==
    AllSucceeded
        => \A r \in DOMAIN pgRoles, s \in Schemas :
              HoldsWrite(r, s)
                  => /\ SelectWhereWrite(r, s)
                     /\ <<s, r, "USAGE">> \in nsAcl
                     /\ <<db1, r, "CONNECT">> \in dbAcl

\* the names a listing call returned
Returned ==
    CASE call.name = "listUsers" -> {ret.rows[i].username : i \in 1..Len(ret.rows)}
      [] call.name = "listRoles" -> {ret.rows[i].rolename : i \in 1..Len(ret.rows)}
      [] call.name = "listUserRoles" -> {ret.rows[i].rolename : i \in 1..Len(ret.rows)}
      [] call.name = "listSchemas" -> {ret.rows[i] : i \in 1..Len(ret.rows)}
      [] OTHER -> {}

IsSystemSchema(n) == n = n_information_schema \/ startsWith(n, pg_)

\* C13: listUsers and listRoles called with includeSystem = false return no
\* role whose name starts with 'pg_' or 'rds_', and listSchemas returns neither
\* 'information_schema' nor a schema whose name starts with 'pg_'; called with
\* includeSystem = true they return every such name the catalog holds (for the
\* role listings: among the roles of their login kind).
C13_SystemNamesHiddenByDefault ==
    /\ (call.name \in {"listUsers", "listRoles"} /\ result = "success")
          => /\ ret.kind = "rows"
             /\ (~call.option => \A n \in Returned : ~HasReservedPrefix(n))
             /\ (call.option =>
                   \A n \in DOMAIN pgRoles :
                       (HasReservedPrefix(n) /\ pgRoles[n].login = (call.name = "listUsers"))
                           => n \in Returned)
    /\ (call.name = "listSchemas" /\ result = "success")
          => /\ ret.kind = "names"
             /\ (~call.option => \A n \in Returned : ~IsSystemSchema(n))
             /\ (call.option => \A n \in namespaces : IsSystemSchema(n) => n \in Returned)

\* listRoles() hides pg_m and rds_a, and keeps the role whose name is PG_m
C13_Witness ==
    /\ call.name = "listRoles"
    /\ ~call.option
    /\ result = "success"
    /\ {n_pg_m, n_rds_a} \subseteq {n \in DOMAIN pgRoles : ~pgRoles[n].login}
    /\ n_PG_m \in Returned
    /\ Returned \cap {n_pg_m, n_rds_a} = {}

\* the rows of a listing are in ascending order of the names
Ascending(names) == \A i \in 1..(Len(names) - 1) : NameLess(names[i], names[i + 1])

NamesIn(rows, listing) ==
    IF listing = "listUsers"
    THEN [i \in 1..Len(rows) |-> rows[i].username]
    ELSE [i \in 1..Len(rows) |-> rows[i].rolename]

\* C14: listRoles returns only roles that cannot log in and listUsers only
\* roles that can, each in ascending order of the names; with includeSystem =
\* true listRoles returns all roles that cannot log in and listUsers all that
\* can, so that every role of the catalog is in exactly one of the two lists.
C14_ListingsSplitByLogin ==
    /\ (call.name \in {"listUsers", "listRoles"} /\ result = "success")
          => /\ \A i \in 1..Len(ret.rows) :
                   /\ ret.rows[i].can_login = (call.name = "listUsers")
                   /\ pgRoles[NamesIn(ret.rows, call.name)[i]].login
                         = (call.name = "listUsers")
             /\ Ascending(NamesIn(ret.rows, call.name))
             /\ (call.option =>
                   Returned = {n \in DOMAIN pgRoles :
                                  pgRoles[n].login = (call.name = "listUsers")})
    /\ LET users == Answer(listUsers(TRUE).stmts[1])
           roles == Answer(listRoles(TRUE).stmts[1])
           U == {users[i].username : i \in 1..Len(users)}
           R == {roles[i].rolename : i \in 1..Len(roles)}
       IN /\ U \cup R = DOMAIN pgRoles
          /\ U \cap R = {}
          /\ Len(users) + Len(roles) = Cardinality(DOMAIN pgRoles)

\* listUsers(true) returned PG_m, ab and rds_a, in this order
C14_Witness ==
    /\ nops = 1
    /\ members = {}
    /\ dbAcl = {}
    /\ call.name = "listUsers"
    /\ call.option
    /\ result = "success"
    /\ NamesIn(ret.rows, "listUsers") = <<n_PG_m, n_ab, n_rds_a>>

\* C15: listPermissions returns a permissions object only when its six queries
\* (role attributes, table grants, memberships, column grants, schema
\* privileges, database privileges) have all resolved, and the object holds
\* their rows; when one of them fails nothing is returned, not even what was
\* collected so far, and the error of the query is thrown unchanged.
C15_ReportAllOrNothing ==
    call.name = "listPermissions"
        => /\ (ret.kind = "permissions" <=> result = "success")
           /\ (result = "success"
                 => /\ Len(fetched) = 6
                    /\ log = listPermissions(call.rolename).stmts
                    /\ ret.permissions.roleDetails
                          = (IF fetched[1] = <<>> THEN EmptyObject ELSE fetched[1][1])
                    /\ ret.permissions.tablePermissions = fetched[2]
                    /\ ret.permissions.memberOf = fetched[3]
                    /\ ret.permissions.columnPermissions = fetched[4]
                    /\ ret.permissions.schemaPermissions = fetched[5]
                    /\ ret.permissions.databasePermissions = fetched[6])
           /\ (result # "success" => ret = NoValue)
           /\ (result = "raised"
                 => /\ Len(fetched) = Len(log) - 1
                    /\ error = DbError(log[Len(log)])
                    /\ error # NoError)

\* the fourth query failed after the table grants of ab had been collected
C15_Witness ==
    /\ call.name = "listPermissions"
    /\ call.rolename = n_ab
    /\ result = "raised"
    /\ Len(log) = 4
    /\ Len(fetched[2]) = 2
    /\ ret = NoValue

ReadOps == {"listUsers", "listRoles", "listSchemas", "listUserRoles", "listPermissions"}

\* C16: a catalog-reading call sends queries only, and no step of it, whether
\* it returns or raises, changes the roles, memberships, objects or privileges.
C16_ReadersChangeNothing ==
    /\ [](call.name \in ReadOps => \A i \in 1..Len(log) : log[i].verb = "SELECT")
    /\ [][call'.name \in ReadOps => UNCHANGED dbVars]_vars

\* listUserRoles('cd') has returned the role of cd, and the membership is still there
C16_Witness ==
    /\ call.name = "listUserRoles"
    /\ call.username = n_cd
    /\ result = "success"
    /\ Returned = {n_ab}
    /\ members = {<<n_cd, n_ab>>}

\* the privileges shown for an object list no privilege twice
NoRepeat(privileges) ==
    \A i, j \in 1..Len(privileges) : privileges[i] = privileges[j] => i = j

C18_GroupedPrivilegesDistinct ==
    out.kind = "role information"
        => /\ \A k \in 1..Len(out.tables) : NoRepeat(out.tables[k].privileges)
           /\ \A k \in 1..Len(out.columns) :
                 \A c \in 1..Len(out.columns[k].columns) :
                     NoRepeat(out.columns[k].columns[c].privileges)

\* the permissions object listPermissions(rolename) returns in this state
ReportOf(rolename) ==
    LET q == listPermissions(rolename).stmts
    IN ReturnValue(Call("listPermissions", NoName, rolename, NoName, <<>>, ""),
                   [i \in 1..Len(q) |-> Answer(q[i])]).permissions

\* a role that held nothing has been given a read grant: the first call of the run
FirstReadGrant ==
    /\ nops = 1
    /\ call.name = "grantReadPermissions"
    /\ result = "success"

\* the report lists SELECT on every table the schema held when the tool started
ListsSelectOnInitialTables(report, schema) ==
    \A o \in InitObjects :
        (o.kind = "TABLE" /\ o.schema = schema)
            => \E i \in 1..Len(report.tablePermissions) :
                  report.tablePermissions[i]
                    = [table_schema |-> schema, table_name |-> RelName(o.id),
                       privilege_type |-> "SELECT"]

\* C19 (as claimed): after a successful grantReadPermissions(role, database,
\* schema) for a role that held nothing, the report of the role shows hasRead =
\* true and hasWrite = false and lists SELECT on every table that existed in
\* the schema at grant time.
C19_ReadGrantShowsRead ==
    FirstReadGrant
        => LET report == ReportOf(call.rolename)
               summary == displayQuickSummary(report)
           IN /\ summary.hasRead
              /\ ~summary.hasWrite
              /\ ListsSelectOnInitialTables(report, SchemaOf(call))

\* C19 (amended): after a successful grantReadPermissions(role, database,
\* schema) for a role that held nothing, the report of the role shows hasWrite
\* = false and lists SELECT on every table that existed in the schema at grant
\* time; it shows hasRead = true exactly when it lists a SELECT grant, which is
\* the case when the schema held a table at grant time, and for a schema that
\* holds no table it shows hasRead = false.
C19_ReadGrantShowsReadOnTables ==
    FirstReadGrant
        => LET report == ReportOf(call.rolename)
               summary == displayQuickSummary(report)
               tables == ObjectsIn("TABLE", SchemaOf(call))
           IN /\ ~summary.hasWrite
              /\ ListsSelectOnInitialTables(report, SchemaOf(call))
              /\ (tables \cap {o.id : o \in InitObjects} # {} => summary.hasRead)
              /\ (tables = {} => ~summary.hasRead)
              /\ \A i \in 1..Len(report.tablePermissions) :
                    /\ report.tablePermissions[i].privilege_type = "SELECT"
                    /\ report.tablePermissions[i].table_schema = SchemaOf(call)

\* the read grant on s1 is reported: SELECT on table t1, read yes, write no
C19_Witness ==
    /\ FirstReadGrant
    /\ call.rolename = n_ab
    /\ SchemaOf(call) = s1
    /\ displayQuickSummary(ReportOf(n_ab)).hasRead
    /\ ~displayQuickSummary(ReportOf(n_ab)).hasWrite
    /\ ReportOf(n_ab).tablePermissions[1].table_name = RelName(1)

Destroying == {"DROP ROLE", "REVOKE", "DEFAULT REVOKE"}

\* the number of listing queries a command sends before its last prompt
QueriesOf(c) == IF c.name = "revoke-permissions" THEN 2 ELSE 1

\* C20: delete-user, delete-role and revoke-permissions send their DROP and
\* REVOKE statements only when the confirmation was answered with yes, and
\* after the listings that precede the prompt; when it is declined, the
\* command sends nothing but its listing queries, changes nothing in the
\* database and prints that the operation was cancelled.
C20_DestroyOnlyWhenConfirmed ==
    /\ [](call.name \in Commands
            => /\ \A i \in 1..Len(log) :
                     /\ (i <= QueriesOf(call) => log[i].verb = "SELECT")
                     /\ (i > QueriesOf(call) => call.option /\ log[i].verb \in Destroying)
               /\ ((~call.option /\ result = "success")
                     => /\ out.kind = "message"
                        /\ out.message = (IF call.name = "revoke-permissions"
                                          THEN "Revoke operation cancelled"
                                          ELSE "Delete operation cancelled")
                        /\ Len(log) = QueriesOf(call)))
    /\ [][(call'.name \in Commands /\ ~call'.option) => UNCHANGED dbVars]_vars

\* delete-role of ab was declined: only the listing was sent, ab is still there
C20_Witness ==
    /\ call.name = "delete-role"
    /\ call.rolename = n_ab
    /\ ~call.option
    /\ result = "success"
    /\ out.message = "Delete operation cancelled"
    /\ log = listRoles(FALSE).stmts
    /\ n_ab \in DOMAIN pgRoles

-----------------------------------------------------------------------------
\* the safe identifier pattern: letters, digits and underscore, no digit first
IsSafeIdentifier(name) ==
    /\ name # <<>>
    /\ name[1] \in Letters \cup {"_"}
    /\ \A i \in 2..Len(name) : name[i] \in Letters \cup Digits \cup {"_"}

\* C21: every statement that was sent to the database with an interpolated
\* role, database or schema name holds only names of the safe identifier
\* pattern (letters, digits and underscore, not starting with a digit).
C21_OnlySafeIdentifiersSent ==
    \A i \in 1..Len(log) :
        log[i].verb # "SELECT"
            => /\ IsSafeIdentifier(log[i].role)
               /\ log[i].obj # NoName => IsSafeIdentifier(log[i].obj)

\* a statement was sent and the call did not go on to its next statement
StatementFailed == Len(log') = Len(log) + 1 /\ pc' # pc + 1

\* C22: a call ends with a success result only when every statement of its
\* plan was sent and none failed; a statement that fails ends the call with an
\* error raised to the caller, and that outcome is never replaced by a success.
C22_FailureReachesCaller ==
    /\ [](result = "success" => error = NoError /\ log = Program(call).stmts)
    /\ [][StatementFailed => result' \in {"failure", "raised"} /\ error' # NoError]_vars
    /\ [][(result \in {"failure", "raised"} /\ nops' = nops) => result' = result]_vars

\* the third statement of a multi-schema read grant failed and was raised
C22_Witness ==
    /\ nops = 1
    /\ call = Call("grantReadPermissionsMulti", NoName, n_ab, db1, <<s1, s2>>, "")
    /\ result = "raised"
    /\ error # NoError
    /\ Len(log) = 3

\* the call in flight repeats, with the same arguments, the write grant that
\* returned success right before it, and no table was created in between
SecondRun == pc # 0 /\ prev = call /\ objects = InitObjects

\* C23: a grant or revoke call is idempotent.  When its last statement has
\* succeeded and it is about to return success, each statement of its plan is
\* settled, so that sending them all again, in order, changes no privilege and
\* no default-privilege rule; and the second of two identical write grants in
\* a row changes nothing in the database.
C23_GrantRevokeIdempotent ==
    /\ []((call.name \in GrantRevokeOps /\ pc > Len(Program(call).stmts))
            => \A i \in 1..Len(Program(call).stmts) : Effective(Program(call).stmts[i]))
    /\ [][SecondRun => UNCHANGED dbVars]_vars

\* the same write grant has run twice in a row, both times with success
C23_Witness ==
    /\ nops = 2
    /\ prev = Call("grantWritePermissions", NoName, n_ab, db1, <<s1>>, "")
    /\ call = prev
    /\ result = "success"
    /\ objects = InitObjects

\* the characters of a class that a password holds
Holds(password, class) ==
    \E i \in 1..Len(password) : \E k \in 1..Len(class) : password[i] = class[k]

HoldsEverySelectedClass ==
    /\ generated.includeUppercase => Holds(generated.password, uppercase)
    /\ generated.includeNumbers => Holds(generated.password, numbers)
    /\ generated.includeSpecial => Holds(generated.password, special)

\* the number of classes a call selects
Selected ==
    (IF generated.includeUppercase THEN 1 ELSE 0)
    + (IF generated.includeNumbers THEN 1 ELSE 0)
    + (IF generated.includeSpecial THEN 1 ELSE 0)

Offered == {fetched[1][i].rolename : i \in 1..Len(fetched[1])}

\* C25: with --system-roles the list-permissions command offers system roles
\* only (names that start with pg_ or rds_); without it, non-system roles only.
C25_SystemRolesOptionOffersSystemRoles ==
    (call.name = "list-permissions" /\ Len(fetched) >= 1)
        => \A n \in Offered : IsSystemRole(n) = call.option

\* C26: the statements of a call are sent one after another: at most one is
\* in flight at any time, a statement is sent only when the result of the one
\* before it has been received, and a call starts or returns only when no
\* statement of the process is in flight.
C26_OneStatementInFlight ==
    /\ [](inflight <= 1)
    /\ [][inflight' > inflight => inflight = 0 /\ Len(log) = pc - 1]_vars
    /\ [][(nops' # nops \/ (result = "pending" /\ result' \in {"success", "failure"}))
            => inflight = 0]_vars

\* the fourth statement of a write grant on two schemas is in flight, alone
C26_Witness ==
    /\ nops = 1
    /\ call = Call("grantWritePermissionsMulti", NoName, n_ab, db1, <<s1, s2>>, "")
    /\ pc = 4
    /\ Len(log) = 3
    /\ inflight = 1

SchemaCommands == {"grant-read-permissions", "grant-write-permissions", "revoke-permissions"}

\* C27: when the schema selection of grant-read-permissions,
\* grant-write-permissions or revoke-permissions is empty, the command sends
\* no grant and no revoke statement (only its two listing queries) and, when
\* it ends, has printed that no schemas were selected.
C27_EmptySelectionSendsNothing ==
    (call.name \in SchemaCommands /\ call.schemas = <<>>)
        => /\ \A i \in 1..Len(log) : log[i].verb = "SELECT"
           /\ result = "success" => out.message = "Error: No schemas selected."

\* grant-write-permissions with All schemas on a database without user schemas
C27_Witness ==
    /\ nops = 1
    /\ namespaces = SystemNamespaces
    /\ call.name = "grant-write-permissions"
    /\ call.schemas = <<>>
    /\ result = "success"
    /\ Len(log) = 2
    /\ out.message = "Error: No schemas selected."

\* C28: every command first tests the connection. When the connection fails,
\* testConnection returns false without raising, and the command sends no
\* statement and changes nothing in the database; when it succeeds, the client
\* acquired for the test has been released before the first statement is sent.
C28_ConnectionTestedFirst ==
    /\ [][nops' # nops => client' = "connecting" /\ pc' = 0 /\ log' = <<>>]_vars
    /\ [](pc # 0 => client = "released")
    /\ [](log # <<>> => client = "released")
    /\ [](client = "failed"
            => result = "not connected" /\ error = NoError /\ ret = NoValue /\ pc = 0)
    /\ [][client = "failed" => log' = <<>> /\ UNCHANGED dbVars]_vars

\* grant-read-permissions on a server that refuses the connection
C28_Witness ==
    /\ nops = 1
    /\ namespaces = Namespaces
    /\ call.name = "grant-read-permissions"
    /\ call.schemas = <<s1>>
    /\ client = "failed"
    /\ result = "not connected"
    /\ log = <<>>

\* the privileges on schemas, on tables and sequences, and the default
\* privileges that are not those of this role in this schema
OutsideSchema(ns, rel, def, obs, rolename, schema) ==
    <<{t \in ns : t[1] # schema \/ t[2] # rolename},
      {t \in rel : t[2] # rolename
                   \/ \E o \in obs : o.id = t[1] /\ o.schema # schema},
      {t \in def : t[1] # schema \/ t[3] # rolename}>>

\* C29: while a single-schema grant or revoke runs for a role and a schema s,
\* the role's table, sequence, schema and default privileges in every other
\* schema stay as they are, and so do all privileges of every other role; of
\* what lies outside s only the role's database privileges may change.
C29_OtherSchemasAndRolesUntouched ==
    [][(call' = call /\ call.name \in SingleSchemaOps)
          => /\ OutsideSchema(nsAcl', relAcl', defAcl', objects', call.rolename, SchemaOf(call))
                = OutsideSchema(nsAcl, relAcl, defAcl, objects, call.rolename, SchemaOf(call))
             /\ {t \in dbAcl' : t[2] # call.rolename} = {t \in dbAcl : t[2] # call.rolename}
             /\ UNCHANGED <<pgRoles, members, objects, namespaces>>]_vars

\* C30: create-user and update-user-password offer to save the credentials
\* only after the service call has returned success; when the service returns
\* a failure result or raises, nothing is offered and no file is written.
C30_CredentialsSavedOnlyAfterSuccess ==
    /\ [][csv' # csv => /\ call.name \in SaveCommands
                        /\ result = "success"
                        /\ pc = 0
                        /\ csv'.op = nops]_vars
    /\ []((call.name \in SaveCommands /\ result \in {"failure", "raised"}) => csv.op # nops)
    /\ [](csv.status \in {"written", "not written", "declined"} => csv.op > 0)

\* create-user for a new user, and the file was written
C30_Witness ==
    /\ nops = 1
    /\ \A n \in DOMAIN pgRoles : pgRoles[n].login <=> n = n_ef
    /\ members = {}
    /\ dbAcl = {}
    /\ call.name = "create-user"
    /\ call.username = n_ef
    /\ call.password = "pw1"
    /\ result = "success"
    /\ csv = [status |-> "written", op |-> 1]

====
